---------------------------- MODULE Spec2Model ----------------------------
(***************************************************************************)
(* Draw-DFD: the diagram store (store/useDiagramStore), the validation     *)
(* engine (core/rules: validateDiagram, filterValidationForUI) and the     *)
(* node-creating handlers of the Level 0 / Level 1 / Level 2 forms.        *)
(*                                                                         *)
(* Text the code inspects character by character (labels that are          *)
(* trimmed, process numbers matched against a regular expression) is a     *)
(* sequence of one-character strings.  Identifiers, which the code only    *)
(* compares for equality, are atomic strings.                              *)
(***************************************************************************)
EXTENDS Integers, Sequences, FiniteSets, TLC

VARIABLES
    diagram,            \* useDiagramStore: state.diagram
    validationResults,  \* useDiagramStore: state.validationResults
    lastRemoved,        \* what the last store call removed, when it was removeNode
    nodeDrags,          \* store harness: the handleNodeDrag calls made so far
    currentLevel,       \* App: which form is mounted (0, 1, 2)
    processes,          \* Level1Form: local list of process definitions
    subProcesses,       \* Level2Form: local list of sub-process definitions
    firstRun,           \* rules harness: return value of a first validateDiagram call
    secondRun,          \* rules harness: return value of a second call, same snapshot
    filterArg,          \* rules harness: the list handed to filterValidationForUI
    filtered,           \* rules harness: what filterValidationForUI returned
    codec,              \* EntityNode: a handle position, its encoded offset, its decoding
    layoutCall,         \* ProcessNode: a call of getEntityLayoutInfo and what it returned
    entityNode,         \* EntityNode: what the mounted component rendered
    edgeProps,          \* CustomOrthogonalEdge: the props of the mounted edge
    view,               \* CustomOrthogonalEdge: what the last render computed
    isLabelSelected,    \* CustomOrthogonalEdge: useState(false)
    toggles,            \* the directions of the edge at the start and after each toggle
    lastKey,            \* the last arrow key handled and the label offset before it
    processNode         \* ProcessNode: the mounted node, its drag, its resize timer

vars == <<diagram, validationResults, lastRemoved, nodeDrags, currentLevel, processes,
          subProcesses,
          firstRun, secondRun, filterArg, filtered, codec, layoutCall, entityNode, processNode,
          edgeProps, view, isLabelSelected, toggles, lastKey>>

storeVars == <<diagram, validationResults, lastRemoved>>
formVars == <<currentLevel, processes, subProcesses>>
viewVars == <<codec, layoutCall, entityNode, edgeProps, view, isLabelSelected, toggles,
              lastKey, processNode>>
harnessVars == <<nodeDrags, firstRun, secondRun, filterArg, filtered, viewVars>>

----------------------------------------------------------------------------
(* Bounds of the model.                                                    *)

MaxNodes == 2
MaxEdges == 1
MaxRuleNodes == 2
MaxRuleEdges == 1
MaxFindings == 2
MaxFormNodes == 3
MaxToggles == 3
MaxDrags == 1
MaxFlows == 2
MaxEntities == 2
MaxFormEdges == 4

----------------------------------------------------------------------------
(* JavaScript values.                                                      *)

\* `undefined` in a text-valued field (processNumber, storeCode).
Undefined == <<"undefined">>

\* `undefined` in an id-valued field (nodeId, edgeId of a finding).
UndefinedId == "<undefined>"

Whitespace == {" ", "\t"}
Digits == {"0", "1", "2", "3", "4", "5", "6", "7", "8", "9"}

\* !s for a text value: undefined and the empty string are falsy.
Falsy(s) == s = Undefined \/ s = <<>>

\* s.trim() === ''
TrimIsEmpty(s) == \A i \in 1..Len(s) : s[i] \in Whitespace

\* !s || s.trim() === ''
Blank(s) == Falsy(s) \/ TrimIsEmpty(s)

\* /^[1-9][0-9]*\.0$/.test(s); test() turns undefined into the text "undefined".
MatchesLevel1Number(s) ==
    /\ s # Undefined
    /\ Len(s) >= 3
    /\ s[1] \in Digits \ {"0"}
    /\ \A i \in 2..(Len(s) - 2) : s[i] \in Digits
    /\ s[Len(s) - 1] = "."
    /\ s[Len(s)] = "0"

\* String(n) for a natural number n.
RECURSIVE NatToStr(_)
NatToStr(n) ==
    LET digit(k) == CASE k = 0 -> "0" [] k = 1 -> "1" [] k = 2 -> "2" [] k = 3 -> "3"
                      [] k = 4 -> "4" [] k = 5 -> "5" [] k = 6 -> "6" [] k = 7 -> "7"
                      [] k = 8 -> "8" [] OTHER -> "9"
    IN  IF n < 10 THEN <<digit(n)>> ELSE NatToStr(n \div 10) \o <<digit(n % 10)>>

RECURSIVE Flatten(_)
Flatten(ss) == IF ss = <<>> THEN <<>> ELSE Head(ss) \o Flatten(Tail(ss))


SeqsUpTo(S, n) == UNION {[1..k -> S] : k \in 0..n}

----------------------------------------------------------------------------
(* JavaScript numbers.  A number is an IEEE-754 double: NaN, an infinity,  *)
(* zero, or sign * m * 2^e with a 53-bit significand m.  Every operation   *)
(* computes the exact result and rounds it to nearest, ties to even, as    *)
(* the hardware does.  Significands do not fit 32-bit integers, so a       *)
(* natural number is a little-endian list of 15-bit limbs.                 *)
(* Exponent overflow and subnormal results are outside the values used.    *)

LimbBase == 2^15
SignificandBits == 53

Limb(a, i) == IF i <= Len(a) THEN a[i] ELSE 0

BnZeros(n) == [i \in 1..n |-> 0]

BnIsOdd(a) == Limb(a, 1) % 2 = 1

NaN == [k |-> "nan", neg |-> FALSE, m |-> <<>>, e |-> 0]

Infinity(neg) == [k |-> "inf", neg |-> neg, m |-> <<>>, e |-> 0]

\* Zero; the sign of zero is not kept.
DZero == [k |-> "num", neg |-> FALSE, m |-> <<>>, e |-> 0]

\* `undefined` in a number-valued field.
DUndefined == [k |-> "undefined", neg |-> FALSE, m |-> <<>>, e |-> 0]

IsNaN(x) == x.k = "nan"

IsZero(x) == x.k = "num" /\ x.m = <<>>

\* Number.isFinite(x)
IsFinite(x) == x.k = "num"

\* The operations on naturals and on doubles are the cases of one recursive
\* operator, Number, and each has a name of its own below.
RECURSIVE Number(_, _)

\* The list without its most significant zero limbs; <<>> is zero.
BnTrim(a) ==
    LET used == { i \in 1..Len(a) : a[i] # 0 }
    IN  IF used = {} THEN <<>>
        ELSE SubSeq(a, 1, CHOOSE i \in used : \A j \in used : j <= i)

\* The limbs of a natural below LimbBase^3.
BnFromNat(n) ==
    BnTrim(<<n % LimbBase, (n \div LimbBase) % LimbBase, n \div (LimbBase * LimbBase)>>)

\* a + b
BnAdd(a, b) == Number("BnAddFrom", <<a, b, 1, 0>>)

\* a - b for a >= b
BnSub(a, b) == BnTrim(Number("BnSubFrom", <<a, b, 1, 0>>))

\* -1, 0 or 1 as a < b, a = b or a > b, decided at the most significant limb
\* where they differ.
BnCmp(a, b) ==
    LET differ == { i \in 1..Len(a) : a[i] # Limb(b, i) }
        top == CHOOSE i \in differ : \A j \in differ : j <= i
    IN  IF Len(a) < Len(b) THEN -1
        ELSE IF Len(a) > Len(b) THEN 1
        ELSE IF differ = {} THEN 0
        ELSE IF a[top] < b[top] THEN -1 ELSE 1

\* a * k for 0 <= k < LimbBase
BnMulSmall(a, k) == BnTrim(Number("BnMulSmallFrom", <<a, k, 1, 0>>))

\* a * b
BnMul(a, b) == BnTrim(Number("BnMulFrom", <<a, b, 1>>))

\* Quotient and remainder of a by k, 0 < k < LimbBase.
BnDivSmall(a, k) == Number("BnDivSmall", <<a, k>>)

\* The number of bits of a limb.
NatBitLen(n) == CHOOSE len \in 0..15 : 2^len > n /\ (len = 0 \/ 2^(len - 1) <= n)

BnBitLen(a) == Number("BnBitLen", <<a>>)

\* Bit i of a, bit 1 the least significant.
BnBit(a, i) == (Limb(a, (i - 1) \div 15 + 1) \div 2^((i - 1) % 15)) % 2

\* a * 2^n
BnShl(a, n) == Number("BnShl", <<a, n>>)

\* floor(a / 2^n), and whether a bit was lost.
BnShr(a, n) == Number("BnShr", <<a, n>>)

\* Quotient and remainder of a by b # 0.
BnDivMod(a, b) == Number("BnDivModFrom", <<a, b, Len(a), <<>>, <<>>>>)

\* The double nearest to (-1)^neg * (M + f) * 2^E, where 0 <= f < 1 and f > 0
\* exactly when lost; ties go to the even significand.
DRound(neg, M, E, lost) == Number("DRound", <<neg, M, E, lost>>)

\* The double of an integer literal.
DInt(n) == Number("DInt", <<n>>)

DNeg(x) == Number("DNeg", <<x>>)

\* Math.abs(x)
DAbs(x) == [x EXCEPT !.neg = FALSE]

\* x * y
DMul(x, y) == Number("DMul", <<x, y>>)

\* x / y
DDiv(x, y) == Number("DDiv", <<x, y>>)

\* x + y
DAdd(x, y) == Number("DAdd", <<x, y>>)

\* x - y
DSub(x, y) == Number("DAdd", <<x, DNeg(y)>>)

\* x < y
DLess(x, y) == Number("DLess", <<x, y>>)

\* x === y
DEq(x, y) == Number("DEq", <<x, y>>)

\* x <= y
DLeq(x, y) == Number("DLeq", <<x, y>>)

\* Math.max(x, y)
DMax(x, y) == Number("DMax", <<x, y>>)

\* Math.min(x, y)
DMin(x, y) == Number("DMin", <<x, y>>)

\* The double of the decimal literal p / 10^d ("0.05" is DDec(5, 2)).
DDec(p, d) == DDiv(DInt(p), DInt(10^d))

Number(op, args) ==
    CASE op = "BnAddFrom" ->
           \* the limbs i.. of a + b + carry
           LET a == args[1]
               b == args[2]
               i == args[3]
               carry == args[4]
               sum == Limb(a, i) + Limb(b, i) + carry
           IN  IF i > Len(a) /\ i > Len(b)
               THEN IF carry = 0 THEN <<>> ELSE <<carry>>
               ELSE <<sum % LimbBase>>
                      \o Number("BnAddFrom", <<a, b, i + 1, sum \div LimbBase>>)
      [] op = "BnSubFrom" ->
           \* the limbs i.. of a - b - borrow
           LET a == args[1]
               b == args[2]
               i == args[3]
               borrow == args[4]
               diff == Limb(a, i) - Limb(b, i) - borrow
           IN  IF i > Len(a) THEN <<>>
               ELSE IF diff < 0
               THEN <<diff + LimbBase>> \o Number("BnSubFrom", <<a, b, i + 1, 1>>)
               ELSE <<diff>> \o Number("BnSubFrom", <<a, b, i + 1, 0>>)
      [] op = "BnMulSmallFrom" ->
           \* the limbs i.. of a * k + carry
           LET a == args[1]
               k == args[2]
               i == args[3]
               carry == args[4]
               prod == a[i] * k + carry
           IN  IF i > Len(a)
               THEN IF carry = 0 THEN <<>> ELSE <<carry>>
               ELSE <<prod % LimbBase>>
                      \o Number("BnMulSmallFrom", <<a, k, i + 1, prod \div LimbBase>>)
      [] op = "BnMulFrom" ->
           LET a == args[1]
               b == args[2]
               i == args[3]
           IN  IF i > Len(b) THEN <<>>
               ELSE BnAdd(BnZeros(i - 1) \o BnMulSmall(a, b[i]),
                          Number("BnMulFrom", <<a, b, i + 1>>))
      [] op = "BnDivSmallFrom" ->
           \* from limb i down, with the remainder rem of the limbs above
           LET a == args[1]
               k == args[2]
               i == args[3]
               rem == args[4]
               cur == rem * LimbBase + a[i]
               rest == Number("BnDivSmallFrom", <<a, k, i - 1, cur % k>>)
           IN  IF i = 0 THEN [q |-> <<>>, r |-> rem]
               ELSE [q |-> rest.q \o <<cur \div k>>, r |-> rest.r]
      [] op = "BnDivSmall" ->
           LET a == args[1]
               d == Number("BnDivSmallFrom", <<a, args[2], Len(a), 0>>)
           IN  [q |-> BnTrim(d.q), r |-> d.r]
      [] op = "BnBitLen" ->
           LET a == args[1]
           IN  IF a = <<>> THEN 0 ELSE 15 * (Len(a) - 1) + NatBitLen(a[Len(a)])
      [] op = "BnShl" ->
           LET a == args[1]
               n == args[2]
           IN  BnTrim(BnZeros(n \div 15) \o BnMulSmall(a, 2^(n % 15)))
      [] op = "BnShr" ->
           LET a == args[1]
               n == args[2]
               limbs == n \div 15
               kept == IF limbs >= Len(a) THEN <<>> ELSE SubSeq(a, limbs + 1, Len(a))
               lostLimb == \E i \in 1..limbs : Limb(a, i) # 0
               d == BnDivSmall(kept, 2^(n % 15))
           IN  [q |-> d.q, lost |-> lostLimb \/ d.r # 0]
      [] op = "BnQuotientDigit" ->
           \* The largest digit d below LimbBase with b * d <= a, for
           \* a < b * LimbBase, found one bit at a time from the bit worth step.
           LET a == args[1]
               b == args[2]
               d == args[3]
               step == args[4]
           IN  IF step = 0 THEN d
               ELSE IF BnCmp(BnMulSmall(b, d + step), a) <= 0
                    THEN Number("BnQuotientDigit", <<a, b, d + step, step \div 2>>)
                    ELSE Number("BnQuotientDigit", <<a, b, d, step \div 2>>)
      [] op = "BnDivModFrom" ->
           \* Schoolbook division from limb i of a down: q holds the digits of
           \* the quotient of the limbs above i, r their remainder.
           LET a == args[1]
               b == args[2]
               i == args[3]
               q == args[4]
               r == args[5]
               r2 == BnTrim(<<a[i]>> \o r)
               d == Number("BnQuotientDigit", <<r2, b, 0, LimbBase \div 2>>)
           IN  IF i = 0 THEN [q |-> BnTrim(q), r |-> r]
               ELSE Number("BnDivModFrom",
                           <<a, b, i - 1, <<d>> \o q, BnSub(r2, BnMulSmall(b, d))>>)
      [] op = "DRound" ->
           LET neg == args[1]
               M == args[2]
               E == args[3]
               lost == args[4]
               len == BnBitLen(M)
               drop == len - SignificandBits
               withGuard == BnShr(M, drop - 1)
               guard == BnIsOdd(withGuard.q)
               sticky == withGuard.lost \/ lost
               down == BnShr(withGuard.q, 1).q
               up == guard /\ (sticky \/ BnIsOdd(down))
               m1 == IF up THEN BnAdd(down, <<1>>) ELSE down
           IN  IF M = <<>> THEN DZero
               ELSE IF len <= SignificandBits
               THEN [k |-> "num", neg |-> neg,
                     m |-> BnShl(M, SignificandBits - len),
                     e |-> E - (SignificandBits - len)]
               ELSE IF BnBitLen(m1) > SignificandBits
               THEN [k |-> "num", neg |-> neg, m |-> BnShr(m1, 1).q, e |-> E + drop + 1]
               ELSE [k |-> "num", neg |-> neg, m |-> m1, e |-> E + drop]
      [] op = "DInt" ->
           LET n == args[1]
           IN  DRound(n < 0, BnFromNat(IF n < 0 THEN -n ELSE n), 0, FALSE)
      [] op = "DNeg" ->
           LET x == args[1]
           IN  IF IsNaN(x) \/ IsZero(x) THEN x ELSE [x EXCEPT !.neg = ~x.neg]
      [] op = "DMul" ->
           LET x == args[1]
               y == args[2]
               neg == x.neg # y.neg
           IN  IF IsNaN(x) \/ IsNaN(y) THEN NaN
               ELSE IF x.k = "inf" \/ y.k = "inf"
               THEN IF IsZero(x) \/ IsZero(y) THEN NaN ELSE Infinity(neg)
               ELSE IF IsZero(x) \/ IsZero(y) THEN DZero
               ELSE DRound(neg, BnMul(x.m, y.m), x.e + y.e, FALSE)
      [] op = "DDiv" ->
           LET x == args[1]
               y == args[2]
               neg == x.neg # y.neg
               d == BnDivMod(BnShl(x.m, SignificandBits + 2), y.m)
           IN  IF IsNaN(x) \/ IsNaN(y) THEN NaN
               ELSE IF x.k = "inf" THEN IF y.k = "inf" THEN NaN ELSE Infinity(neg)
               ELSE IF y.k = "inf" THEN DZero
               ELSE IF IsZero(y) THEN IF IsZero(x) THEN NaN ELSE Infinity(neg)
               ELSE IF IsZero(x) THEN DZero
               ELSE DRound(neg, d.q, x.e - y.e - (SignificandBits + 2), d.r # <<>>)
      [] op = "DAdd" ->
           LET x == args[1]
               y == args[2]
               e == IF x.e < y.e THEN x.e ELSE y.e
               mx == BnShl(x.m, x.e - e)
               my == BnShl(y.m, y.e - e)
               c == BnCmp(mx, my)
           IN  IF IsNaN(x) \/ IsNaN(y) THEN NaN
               ELSE IF x.k = "inf" THEN IF y.k = "inf" /\ y.neg # x.neg THEN NaN ELSE x
               ELSE IF y.k = "inf" THEN y
               ELSE IF IsZero(x) THEN y
               ELSE IF IsZero(y) THEN x
               ELSE IF x.neg = y.neg THEN DRound(x.neg, BnAdd(mx, my), e, FALSE)
               ELSE IF c = 0 THEN DZero
               ELSE IF c > 0 THEN DRound(x.neg, BnSub(mx, my), e, FALSE)
               ELSE DRound(y.neg, BnSub(my, mx), e, FALSE)
      [] op = "MagLess" ->
           \* whether |x| < |y| for two numbers that are not NaN
           LET x == args[1]
               y == args[2]
           IN  IF x.k = "inf" THEN FALSE
               ELSE IF y.k = "inf" THEN TRUE
               ELSE IF IsZero(y) THEN FALSE
               ELSE IF IsZero(x) THEN TRUE
               ELSE x.e < y.e \/ (x.e = y.e /\ BnCmp(x.m, y.m) < 0)
      [] op = "DLess" ->
           LET x == args[1]
               y == args[2]
           IN  /\ ~IsNaN(x)
               /\ ~IsNaN(y)
               /\ IF x.neg /\ ~y.neg THEN x # y
                  ELSE IF ~x.neg /\ y.neg THEN FALSE
                  ELSE IF x.neg THEN Number("MagLess", <<y, x>>)
                  ELSE Number("MagLess", <<x, y>>)
      [] op = "DEq" ->
           LET x == args[1]
               y == args[2]
           IN  ~IsNaN(x) /\ ~IsNaN(y) /\ x = y
      [] op = "DLeq" -> DLess(args[1], args[2]) \/ DEq(args[1], args[2])
      [] op = "DMax" ->
           LET x == args[1]
               y == args[2]
           IN  IF IsNaN(x) \/ IsNaN(y) THEN NaN ELSE IF DLess(x, y) THEN y ELSE x
      [] op = "DMin" ->
           LET x == args[1]
               y == args[2]
           IN  IF IsNaN(x) \/ IsNaN(y) THEN NaN ELSE IF DLess(y, x) THEN y ELSE x

----------------------------------------------------------------------------
(* core/types                                                              *)

DFDLevel == {0, 1, 2}

DFDNodeType == {"entity", "process", "datastore", "process_ref"}

\* A node object.  Fields a variant does not have read as undefined.
Node(id, type, label, level, processNumber, storeCode) ==
    [id |-> id, type |-> type, label |-> label, level |-> level,
     processNumber |-> processNumber, storeCode |-> storeCode]

DFDEdge(id, label, sourceNodeId, targetNodeId, level) ==
    [id |-> id, type |-> "dataflow", label |-> label,
     sourceNodeId |-> sourceNodeId, targetNodeId |-> targetNodeId, level |-> level]

\* A validation finding as addResult builds it, before its id is generated.
ValidationResult(ruleCode, severity, message, nodeId, edgeId) ==
    [ruleCode |-> ruleCode, severity |-> severity, message |-> message,
     nodeId |-> nodeId, edgeId |-> edgeId]

----------------------------------------------------------------------------
(* core/rules: validateDiagram                                             *)

\* crypto.randomUUID() values.  One validateDiagram call draws a fresh value
\* per finding; the model draws one seed per call and numbers the findings.
Seeds == {"u", "v"}

\* The same, with the findings listed in an order that depends on the ids drawn.
addResultInIdOrder(findings, seed) ==
    LET n == Len(findings)
        at(i) == IF seed = "u" THEN i ELSE n + 1 - i
    IN  [i \in 1..n |->
            [id |-> <<seed, i>>,
             ruleCode |-> findings[at(i)].ruleCode,
             severity |-> findings[at(i)].severity,
             message |-> findings[at(i)].message,
             nodeId |-> findings[at(i)].nodeId,
             edgeId |-> findings[at(i)].edgeId]]

\* results.push({id: crypto.randomUUID(), ...}) for every finding of a call.
addResult(findings, seed) ==
    [i \in 1..Len(findings) |->
        [id |-> <<seed, i>>,
         ruleCode |-> findings[i].ruleCode,
         severity |-> findings[i].severity,
         message |-> findings[i].message,
         nodeId |-> findings[i].nodeId,
         edgeId |-> findings[i].edgeId]]

\* A finding without its generated id.
StripId(r) ==
    [ruleCode |-> r.ruleCode, severity |-> r.severity, message |-> r.message,
     nodeId |-> r.nodeId, edgeId |-> r.edgeId]

StripIds(results) == [i \in 1..Len(results) |-> StripId(results[i])]

\* nodeMap.has(id)
nodeMapHas(nodes, id) == \E i \in 1..Len(nodes) : nodes[i].id = id

\* nodeMap.get(id): nodes.forEach(n => nodeMap.set(n.id, n)) keeps the last
\* node of each id.  Only called where nodeMapHas holds.
nodeMapGet(nodes, id) ==
    nodes[CHOOSE i \in 1..Len(nodes) :
            /\ nodes[i].id = id
            /\ \A j \in (i + 1)..Len(nodes) : nodes[j].id # id]

isProcess(n) == n.type = "process"

\* The same, taking an external process reference for a process too.
processNodesWithRefs(nodes) ==
    SelectSeq(nodes, LAMBDA n : n.type \in {"process", "process_ref"})

\* nodes.filter(n => n.type === 'process')
processNodes(nodes) == SelectSeq(nodes, isProcess)

\* Node-level rules N-002, N-003 for one node.
nodeRules(node) ==
    (IF node.type = "process" /\ Falsy(node.processNumber)
       THEN <<ValidationResult("N-002", "error", <<"Process must have a number.">>,
                               node.id, UndefinedId)>>
       ELSE <<>>)
    \o
    (IF node.type = "process" /\ Blank(node.label)
       THEN <<ValidationResult("N-002", "error", <<"Process must have a name.">>,
                               node.id, UndefinedId)>>
       ELSE <<>>)
    \o
    (IF node.type = "datastore" /\ Falsy(node.storeCode)
       THEN <<ValidationResult("N-003", "error",
                               <<"Data Store must have an identifier (e.g., D1).">>,
                               node.id, UndefinedId)>>
       ELSE <<>>)

\* The same with E-005 raised for entity -> store only.
edgeTypeRulesOneWay(acc, edge, nodes) ==
    IF ~nodeMapHas(nodes, edge.sourceNodeId) \/ ~nodeMapHas(nodes, edge.targetNodeId)
    THEN [threw |-> TRUE, out |-> acc]
    ELSE
      LET source == nodeMapGet(nodes, edge.sourceNodeId)
          target == nodeMapGet(nodes, edge.targetNodeId)
      IN  [threw |-> FALSE,
           out |-> acc
             \o (IF source.type = "entity" /\ target.type = "entity"
                   THEN <<ValidationResult("E-003", "error",
                            <<"External entities cannot exchange data directly.">>,
                            UndefinedId, edge.id)>>
                   ELSE <<>>)
             \o (IF source.type = "datastore" /\ target.type = "datastore"
                   THEN <<ValidationResult("E-004", "error",
                            <<"Data stores cannot exchange data directly.">>,
                            UndefinedId, edge.id)>>
                   ELSE <<>>)
             \o (IF source.type = "entity" /\ target.type = "datastore"
                   THEN <<ValidationResult("E-005", "error",
                            <<"Data stores must connect via a process, not directly to entities.">>,
                            UndefinedId, edge.id)>>
                   ELSE <<>>)]

\* The type checks E-003, E-004, E-005 of one edge.  They read source.type and
\* target.type, which throws a TypeError when either is undefined.
edgeTypeRules(acc, edge, nodes) ==
    IF ~nodeMapHas(nodes, edge.sourceNodeId) \/ ~nodeMapHas(nodes, edge.targetNodeId)
    THEN [threw |-> TRUE, out |-> acc]
    ELSE
      LET source == nodeMapGet(nodes, edge.sourceNodeId)
          target == nodeMapGet(nodes, edge.targetNodeId)
          isEntityToStore == source.type = "entity" /\ target.type = "datastore"
          isStoreToEntity == source.type = "datastore" /\ target.type = "entity"
      IN  [threw |-> FALSE,
           out |-> acc
             \o (IF source.type = "entity" /\ target.type = "entity"
                   THEN <<ValidationResult("E-003", "error",
                            <<"External entities cannot exchange data directly.">>,
                            UndefinedId, edge.id)>>
                   ELSE <<>>)
             \o (IF source.type = "datastore" /\ target.type = "datastore"
                   THEN <<ValidationResult("E-004", "error",
                            <<"Data stores cannot exchange data directly.">>,
                            UndefinedId, edge.id)>>
                   ELSE <<>>)
             \o (IF isEntityToStore \/ isStoreToEntity
                   THEN <<ValidationResult("E-005", "error",
                            <<"Data stores must connect via a process, not directly to entities.">>,
                            UndefinedId, edge.id)>>
                   ELSE <<>>)]

\* The same without the early return after E-002.
edgeRulesNoReturn(edge, nodes) ==
    LET e001 == IF Blank(edge.label)
                  THEN <<ValidationResult("E-001", "error", <<"Data flow must be named.">>,
                                          UndefinedId, edge.id)>>
                  ELSE <<>>
        e002 == IF ~nodeMapHas(nodes, edge.sourceNodeId)
                   \/ ~nodeMapHas(nodes, edge.targetNodeId)
                  THEN <<ValidationResult("E-002", "error",
                            <<"Data flow must connect two valid nodes.">>,
                            UndefinedId, edge.id)>>
                  ELSE <<>>
    IN  edgeTypeRules(e001 \o e002, edge, nodes)

\* The body of edges.forEach: what one edge's iteration pushes, and whether
\* it throws.
edgeRules(edge, nodes) ==
    LET e001 == IF Blank(edge.label)
                  THEN <<ValidationResult("E-001", "error", <<"Data flow must be named.">>,
                                          UndefinedId, edge.id)>>
                  ELSE <<>>
    IN  IF ~nodeMapHas(nodes, edge.sourceNodeId) \/ ~nodeMapHas(nodes, edge.targetNodeId)
        THEN [threw |-> FALSE,
              out |-> e001 \o <<ValidationResult("E-002", "error",
                                   <<"Data flow must connect two valid nodes.">>,
                                   UndefinedId, edge.id)>>]
        ELSE edgeTypeRules(e001, edge, nodes)

\* Connectivity analysis N-004, P-001, P-002, P-003 for one node.
connectivityRules(node, edges) ==
    LET inputs == SelectSeq(edges, LAMBDA e : e.targetNodeId = node.id)
        outputs == SelectSeq(edges, LAMBDA e : e.sourceNodeId = node.id)
        totalConnections == Len(inputs) + Len(outputs)
        selfLoops == SelectSeq(edges, LAMBDA e : e.sourceNodeId = node.id
                                                  /\ e.targetNodeId = node.id)
    IN  (IF totalConnections = 0
           THEN <<ValidationResult("N-004", "warning",
                    <<"Node is not connected to any data flow.">>, node.id, UndefinedId)>>
           ELSE <<>>)
        \o
        (IF node.type = "process" /\ Len(inputs) = 0
           THEN <<ValidationResult("P-001", "error",
                    <<"Process must receive at least one data input.">>,
                    node.id, UndefinedId)>>
           ELSE <<>>)
        \o
        (IF node.type = "process" /\ Len(outputs) = 0
           THEN <<ValidationResult("P-002", "error",
                    <<"Process must produce at least one data output.">>,
                    node.id, UndefinedId)>>
           ELSE <<>>)
        \o
        (IF node.type = "process" /\ Len(selfLoops) > 0
           THEN <<ValidationResult("P-003", "warning",
                    <<"Self-referencing process detected.">>, node.id, UndefinedId)>>
           ELSE <<>>)

\* Diagram-level rules of a level-0 diagram: D-001, L0-001, D-002.
level0Rules(nodes) ==
    LET procs == processNodes(nodes)
        storeNodes == SelectSeq(nodes, LAMBDA n : n.type = "datastore")
    IN  (IF Len(procs) # 1
           THEN <<ValidationResult("D-001", "error",
                    <<"Level 0 DFD must contain exactly one process.">>,
                    UndefinedId, UndefinedId)>>
           ELSE IF procs[1].processNumber # <<"0", ".", "0">>
             THEN <<ValidationResult("L0-001", "error",
                      <<"Level 0 process must be numbered 0.0.">>,
                      procs[1].id, UndefinedId)>>
             ELSE <<>>)
        \o
        [i \in 1..Len(storeNodes) |->
            ValidationResult("D-002", "error",
                <<"Data stores are not allowed in Level 0 DFD.">>,
                storeNodes[i].id, UndefinedId)]

\* Level-1 rule L1-001, one finding per offending process.
level1Rules(nodes) ==
    LET bad == SelectSeq(processNodes(nodes),
                         LAMBDA n : ~MatchesLevel1Number(n.processNumber))
    IN  [i \in 1..Len(bad) |->
            ValidationResult("L1-001", "error",
                <<"Level 1 processes must be numbered X.0 (e.g., 1.0, 2.0). Found: ",
                  bad[i].processNumber>>,
                bad[i].id, UndefinedId)]

\* The findings of every edge, in edge order, each edge's own findings together.
edgeFindings(d) == [i \in 1..Len(d.edges) |-> edgeRules(d.edges[i], d.nodes)]

\* validateDiagram(diagram): {threw, results}.  threw is TRUE when the call
\* ends in an exception instead of returning.
validateDiagram(d, seed) ==
    LET perEdge == edgeFindings(d)
        threw == \E i \in 1..Len(perEdge) : perEdge[i].threw
        findings ==
            Flatten([i \in 1..Len(d.nodes) |-> nodeRules(d.nodes[i])])
            \o Flatten([i \in 1..Len(perEdge) |-> perEdge[i].out])
            \o Flatten([i \in 1..Len(d.nodes) |-> connectivityRules(d.nodes[i], d.edges)])
            \o (IF d.level = 0 THEN level0Rules(d.nodes) ELSE <<>>)
            \o (IF d.level = 1 THEN level1Rules(d.nodes) ELSE <<>>)
    IN  [threw |-> threw,
         results |-> IF threw THEN <<>> ELSE addResult(findings, seed)]

----------------------------------------------------------------------------
(* core/rules: filterValidationForUI                                       *)

\* The same list without P-002.
suppressCodesWithoutP002 == {"N-004", "P-001", "L0-001"}

suppressCodes == {"N-004", "P-001", "P-002", "L0-001"}

\* The same without the severity test for diagrams that have no flows.
filterKeepsWarnings(results, d) ==
    LET hasFlows == Len(d.edges) > 0
        processCount == Len(processNodes(d.nodes))
        keep(r) ==
            IF r.ruleCode = "D-001" /\ processCount = 1 THEN FALSE
            ELSE IF ~hasFlows THEN r.ruleCode \notin suppressCodes
            ELSE TRUE
    IN  SelectSeq(results, keep)

filterValidationForUI(results, d) ==
    LET hasFlows == Len(d.edges) > 0
        processCount == Len(processNodes(d.nodes))
        keep(r) ==
            IF r.ruleCode = "D-001" /\ processCount = 1 THEN FALSE
            ELSE IF ~hasFlows
              THEN IF r.severity # "error" THEN FALSE
                   ELSE r.ruleCode \notin suppressCodes
            ELSE TRUE
    IN  SelectSeq(results, keep)


----------------------------------------------------------------------------
(* Text values used as inputs.                                             *)

TxtSystem == <<"S", "y", "s", "t", "e", "m">>
TxtNewProcess == <<"N", "e", "w", " ", "P", "r", "o", "c", "e", "s", "s">>
TxtNewDFD == <<"N", "e", "w", " ", "D", "F", "D">>
TxtName == <<"A">>
Txt11 == <<"1", ".", "1">>
TxtSpace == <<" ">>
TxtEmpty == <<>>
Txt00 == <<"0", ".", "0">>
Txt10 == <<"1", ".", "0">>
TxtD1 == <<"D", "1">>

----------------------------------------------------------------------------
(* Parts of the state a specification leaves alone.                        *)

NotRun == [ran |-> FALSE, threw |-> FALSE, results |-> <<>>]

Returned(v) == [ran |-> TRUE, threw |-> v.threw, results |-> v.results]

\* History of the store: the id the last call removed a node by and the
\* number of edges that call took out of the diagram.
NoRemoval == [id |-> UndefinedId, edges |-> 0]

Removal(before, after, id) == [id |-> id, edges |-> Len(before.edges) - Len(after.edges)]

FormsIdle ==
    /\ currentLevel = 0
    /\ processes = <<>>
    /\ subProcesses = <<>>

\* No handle position is being encoded or decoded.
NoCodec == [stage |-> "idle"]

\* No edge component is mounted.
NoProps == [id |-> UndefinedId]

NotMounted == [mounted |-> FALSE]

\* getEntityLayoutInfo has not been called.
NoLayout == [called |-> FALSE]

ViewIdle ==
    /\ codec = NoCodec
    /\ layoutCall = NoLayout
    /\ entityNode = NotMounted
    /\ processNode = NotMounted
    /\ edgeProps = NoProps
    /\ view = NotMounted
    /\ isLabelSelected = FALSE
    /\ toggles = <<>>
    /\ lastKey = [key |-> UndefinedId]

HarnessIdle ==
    /\ nodeDrags = 0
    /\ firstRun = NotRun
    /\ secondRun = NotRun
    /\ filterArg = <<>>
    /\ filtered = NotRun
    /\ ViewIdle

----------------------------------------------------------------------------
(* store/useDiagramStore                                                   *)

INITIAL_DIAGRAM ==
    [id |-> "root-diagram", name |-> TxtNewDFD, systemName |-> "My System",
     level |-> 0, nodes |-> <<>>, edges |-> <<>>]

Diagram(level, nodes, edges) == [INITIAL_DIAGRAM EXCEPT !.level = level,
                                                        !.nodes = nodes,
                                                        !.edges = edges]

\* { ...object, ...updates }
Spread(object, updates) ==
    [f \in DOMAIN object \cup DOMAIN updates |->
        IF f \in DOMAIN updates THEN updates[f] ELSE object[f]]

\* filterValidationForUI(validateDiagram(newDiagram), newDiagram)
refresh(newDiagram, seed) ==
    LET v == validateDiagram(newDiagram, seed)
    IN  [threw |-> v.threw,
         results |-> IF v.threw THEN <<>> ELSE filterValidationForUI(v.results, newDiagram)]

\* set(() => ({diagram: newDiagram, validationResults})); an exception in
\* the updater leaves the state as it was.
Commit(newDiagram, removal) ==
    \E seed \in Seeds :
        LET r == refresh(newDiagram, seed)
        IN  IF r.threw
            THEN UNCHANGED storeVars
            ELSE /\ diagram' = newDiagram
                 /\ validationResults' = r.results
                 /\ lastRemoved' = removal

setDiagramName(d, name) == [d EXCEPT !.name = name]

setLevel(d, level) == [d EXCEPT !.level = level]

addNode(d, node) == [d EXCEPT !.nodes = Append(@, node)]

updateNode(d, id, updates) ==
    [d EXCEPT !.nodes = [i \in 1..Len(@) |->
                            IF @[i].id = id THEN Spread(@[i], updates) ELSE @[i]]]

\* The same without the removal of the edges at the node.
removeNodeKeepsEdges(d, id) ==
    [d EXCEPT !.nodes = SelectSeq(@, LAMBDA n : n.id # id)]

removeNode(d, id) ==
    [d EXCEPT !.nodes = SelectSeq(@, LAMBDA n : n.id # id),
              !.edges = SelectSeq(@, LAMBDA e : e.sourceNodeId # id /\ e.targetNodeId # id)]

addEdge(d, edge) == [d EXCEPT !.edges = Append(@, edge)]

updateEdge(d, id, updates) ==
    [d EXCEPT !.edges = [i \in 1..Len(@) |->
                            IF @[i].id = id THEN Spread(@[i], updates) ELSE @[i]]]

removeEdge(d, id) == [d EXCEPT !.edges = SelectSeq(@, LAMBDA e : e.id # id)]

(* Inputs of the store actions.                                            *)

StoreNodeInputs ==
    { Node("p-0.0", "process", TxtSystem, 0, Txt00, Undefined),
      Node("e-a", "entity", TxtName, 0, Undefined, Undefined) }

StoreEdgeInputs ==
    { DFDEdge("df-a", TxtName, "e-a", "p-0.0", 0),
      DFDEdge("df-b", TxtEmpty, "p-0.0", "e-a", 0),
      DFDEdge("df-c", TxtName, "e-a", "e-gone", 0) }

StoreNodeIds == {"p-0.0", "e-a", "e-gone"}

StoreEdgeIds == {"df-a", "df-b", "df-c"}

NodeUpdateInputs == { [label |-> TxtEmpty, processNumber |-> Txt10] }

EdgeUpdateInputs == { [label |-> TxtName] }

LoadInputs ==
    { Diagram(1,
              << Node("p-0.0", "process", TxtSystem, 0, Txt00, Undefined),
                 Node("e-a", "entity", TxtName, 0, Undefined, Undefined) >>,
              << DFDEdge("df-a", TxtName, "e-a", "p-0.0", 0) >>) }

Init ==
    /\ diagram = INITIAL_DIAGRAM
    /\ validationResults = <<>>
    /\ lastRemoved = NoRemoval
    /\ FormsIdle
    /\ HarnessIdle

SetDiagramName(name) ==
    /\ diagram' = setDiagramName(diagram, name)
    /\ lastRemoved' = NoRemoval
    /\ UNCHANGED <<validationResults, formVars, harnessVars>>

SetLevel(level) ==
    /\ Commit(setLevel(diagram, level), NoRemoval)
    /\ UNCHANGED <<formVars, harnessVars>>

AddNode(node) ==
    /\ Len(diagram.nodes) < MaxNodes
    /\ Commit(addNode(diagram, node), NoRemoval)
    /\ UNCHANGED <<formVars, harnessVars>>

UpdateNode(id, updates) ==
    /\ Commit(updateNode(diagram, id, updates), NoRemoval)
    /\ UNCHANGED <<formVars, harnessVars>>

RemoveNode(id) ==
    /\ Commit(removeNode(diagram, id), Removal(diagram, removeNode(diagram, id), id))
    /\ UNCHANGED <<formVars, harnessVars>>

AddEdge(edge) ==
    /\ Len(diagram.edges) < MaxEdges
    /\ Commit(addEdge(diagram, edge), NoRemoval)
    /\ UNCHANGED <<formVars, harnessVars>>

UpdateEdge(id, updates) ==
    /\ Commit(updateEdge(diagram, id, updates), NoRemoval)
    /\ UNCHANGED <<formVars, harnessVars>>

RemoveEdge(id) ==
    /\ Commit(removeEdge(diagram, id), NoRemoval)
    /\ UNCHANGED <<formVars, harnessVars>>

LoadDiagram(d) ==
    /\ \E seed \in Seeds :
         LET r == refresh(d, seed)
         IN  IF r.threw
             THEN UNCHANGED storeVars
             ELSE /\ diagram' = d
                  /\ validationResults' = r.results
                  /\ lastRemoved' = NoRemoval
    /\ UNCHANGED <<formVars, harnessVars>>

ResetDiagram ==
    /\ diagram' = INITIAL_DIAGRAM
    /\ validationResults' = <<>>
    /\ lastRemoved' = NoRemoval
    /\ UNCHANGED <<formVars, harnessVars>>

Next ==
    \/ \E name \in {TxtName} : SetDiagramName(name)
    \/ \E level \in {0, 1} : SetLevel(level)
    \/ \E node \in StoreNodeInputs : AddNode(node)
    \/ \E id \in {"p-0.0", "e-gone"}, updates \in NodeUpdateInputs : UpdateNode(id, updates)
    \/ \E id \in StoreNodeIds : RemoveNode(id)
    \/ \E edge \in StoreEdgeInputs : AddEdge(edge)
    \/ \E id \in {"df-b"}, updates \in EdgeUpdateInputs : UpdateEdge(id, updates)
    \/ \E id \in StoreEdgeIds : RemoveEdge(id)
    \/ \E d \in LoadInputs : LoadDiagram(d)
    \/ ResetDiagram

Spec == Init /\ [][Next]_vars

-----------------------------------------------------------------------------
(* store/useDiagramStore: handleNodeDrag.                                  *)

MaxNodeDrags == 2

\* handleNodeDrag called without its third argument.
NoLevelOverride == -1

Position(x, y) == [x |-> x, y |-> y]

\* A node with its place on the canvas.
PlacedNode(node, x, y) == Spread(node, [position |-> Position(x, y)])

\* levelOverride ?? state.diagram.level
levelInForce(d, levelOverride) ==
    IF levelOverride = NoLevelOverride THEN d.level ELSE levelOverride

\* nodes.find(n => n.id === id): its index, 0 when there is none.
findNode(d, id) ==
    IF \E i \in 1..Len(d.nodes) : d.nodes[i].id = id
    THEN CHOOSE i \in 1..Len(d.nodes) :
            /\ d.nodes[i].id = id
            /\ \A j \in 1..(i - 1) : d.nodes[j].id # id
    ELSE 0

\* (isProcess || isDataStore) && (currentLevel === 1 || currentLevel === 2)
isCoupledDrag(draggedNode, level) ==
    /\ draggedNode.type \in {"process", "datastore"}
    /\ level \in {1, 2}

\* nodes.map(n => n.id === id ? { ...n, position } : n)
dragAlone(d, id, position) ==
    [d EXCEPT !.nodes = [i \in 1..Len(@) |->
                            IF @[i].id = id
                            THEN Spread(@[i], [position |-> position])
                            ELSE @[i]]]

\* The nodes of the dragged node's type on the level in force move by dx.
dragColumn(d, id, position, draggedNode, level, dx) ==
    [d EXCEPT !.nodes = [i \in 1..Len(@) |->
        IF @[i].level = level /\ @[i].type = draggedNode.type
        THEN Spread(@[i],
                    [position |->
                        Position(DAdd(@[i].position.x, dx),
                                 IF @[i].id = id THEN position.y ELSE @[i].position.y)])
        ELSE @[i]]]

\* The same with every drag a drag of the one node.
handleNodeDragAlone(d, id, position, levelOverride) ==
    IF findNode(d, id) = 0 THEN d ELSE dragAlone(d, id, position)

handleNodeDrag(d, id, position, levelOverride) ==
    IF findNode(d, id) = 0
    THEN d
    ELSE IF isCoupledDrag(d.nodes[findNode(d, id)], levelInForce(d, levelOverride))
         THEN dragColumn(d, id, position, d.nodes[findNode(d, id)],
                         levelInForce(d, levelOverride),
                         DSub(position.x, d.nodes[findNode(d, id)].position.x))
         ELSE dragAlone(d, id, position)

\* A diagram with two processes and a data store on level 1 and the context
\* diagram's process and entity on level 0.
DragNodes ==
    << PlacedNode(Node("p-0.0", "process", TxtSystem, 0, Txt00, Undefined), DInt(250), DInt(250)),
       PlacedNode(Node("e-a", "entity", TxtName, 0, Undefined, Undefined), DInt(0), DInt(0)),
       PlacedNode(Node("p-1.0", "process", TxtName, 1, Txt10, Undefined), DInt(100), DInt(100)),
       PlacedNode(Node("p-1.1", "process", TxtName, 1, Txt11, Undefined), DInt(140), DInt(300)),
       PlacedNode(Node("ds-1", "datastore", TxtName, 1, Undefined, TxtD1), DInt(400), DInt(100)) >>

DragDiagram ==
    Diagram(1, DragNodes, << DFDEdge("df-a", TxtName, "e-a", "p-0.0", 0) >>)

DragIds == {"p-0.0", "e-a", "p-1.0", "p-1.1", "ds-1", "n-gone"}

DragPositions == { Position(DInt(120), DInt(80)), Position(DDec(361, 1), DInt(40)) }

DragLevels == {NoLevelOverride, 2}

\* The store after loadDiagram(DragDiagram).
InitDrag ==
    /\ \E seed \in Seeds :
         /\ ~refresh(DragDiagram, seed).threw
         /\ diagram = DragDiagram
         /\ validationResults = refresh(DragDiagram, seed).results
    /\ lastRemoved = NoRemoval
    /\ FormsIdle
    /\ HarnessIdle

HandleNodeDrag(id, position, levelOverride) ==
    /\ nodeDrags < MaxNodeDrags
    /\ diagram' = handleNodeDrag(diagram, id, position, levelOverride)
    /\ nodeDrags' = nodeDrags + 1
    /\ lastRemoved' = NoRemoval
    /\ UNCHANGED <<validationResults, formVars, firstRun, secondRun, filterArg, filtered,
                   viewVars>>

NextDrag ==
    \/ \E id \in DragIds, position \in DragPositions, levelOverride \in DragLevels :
          HandleNodeDrag(id, position, levelOverride)
    \/ \E level \in {0, 1, 2} : SetLevel(level)

SpecDrag == InitDrag /\ [][NextDrag]_vars

----------------------------------------------------------------------------
(* App and the forms: the tab that is open, the local state of the open    *)
(* form, and the handlers of the three forms acting on the store.          *)

\* crypto.randomUUID().slice(0, n): a value no node and no form entry is
\* using; the first such of the list is taken.
IdSuffixes == <<"a", "b", "c", "d", "e">>

UsedIds ==
    {diagram.nodes[i].id : i \in 1..Len(diagram.nodes)}
      \cup {processes[i].id : i \in 1..Len(processes)}
      \cup {subProcesses[i].id : i \in 1..Len(subProcesses)}

randomId(prefix) ==
    LET free == {k \in 1..Len(IdSuffixes) : (prefix \o IdSuffixes[k]) \notin UsedIds}
        k == CHOOSE k \in free : \A j \in free : k <= j
    IN  prefix \o IdSuffixes[k]

\* diagram.nodes.find(n => n.id === id): the index of the first node with
\* the id, 0 for undefined
findNodeById(nodes, id) ==
    LET hits == {i \in 1..Len(nodes) : nodes[i].id = id}
    IN  IF hits = {} THEN 0 ELSE CHOOSE i \in hits : \A j \in hits : i <= j

isProcess00(n) == n.type = "process" /\ n.processNumber = Txt00

\* diagram.nodes.find(n => n.type === 'process' && n.processNumber === '0.0')
findProcess00(nodes) ==
    LET hits == {i \in 1..Len(nodes) : isProcess00(nodes[i])}
    IN  IF hits = {} THEN 0 ELSE CHOOSE i \in hits : \A j \in hits : i <= j

\* edges.forEach(e => removeEdge(e.id))
RECURSIVE removeEdges(_, _)
removeEdges(d, ids) ==
    IF ids = <<>> THEN d ELSE removeEdges(removeEdge(d, Head(ids)), Tail(ids))

incidentEdgeIds(d, id) ==
    LET hit == SelectSeq(d.edges, LAMBDA e : e.sourceNodeId = id \/ e.targetNodeId = id)
    IN  [k \in 1..Len(hit) |-> hit[k].id]

levelNodes(level, types) ==
    SelectSeq(diagram.nodes, LAMBDA n : n.level = level /\ n.type \in types)

\* name || 'New Process'
orNewProcess(name) == IF Falsy(name) THEN TxtNewProcess ELSE name

ProcessDefinition(id, number, name) == [id |-> id, number |-> number, name |-> name]

(* Inputs of the form handlers.                                            *)

NameInputs == {TxtName, TxtSpace}

RenameInputs == {TxtName, TxtEmpty}

ParentNumberInputs == {TxtEmpty, Txt10}

NumberInputs == {Txt11}

ParticipantTypes == {"entity", "process_ref"}

InitForms ==
    /\ diagram = INITIAL_DIAGRAM
    /\ validationResults = <<>>
    /\ lastRemoved = NoRemoval
    /\ FormsIdle
    /\ HarnessIdle

\* Level0Form's effect has run when the diagram holds a process "0.0"; React
\* runs a pending effect before it handles the next event.
EffectPending ==
    /\ currentLevel = 0
    /\ ~\E i \in 1..Len(diagram.nodes) : isProcess00(diagram.nodes[i])

FormOpen(level) == currentLevel = level /\ ~EffectPending

\* Whether the diagram has room for one more node.
RoomForNode == Len(diagram.nodes) < MaxFormNodes

\* App: onClick={() => setCurrentLevel(level)}; another form is mounted
\* with its initial local state.
SetCurrentLevel(level) ==
    /\ ~EffectPending
    /\ level # currentLevel
    /\ currentLevel' = level
    /\ processes' = <<>>
    /\ subProcesses' = <<>>
    /\ UNCHANGED <<storeVars, harnessVars>>

Level0Form_useEffect ==
    /\ EffectPending
    /\ Commit(addNode(diagram, Node("p-0.0", "process", TxtSystem, 0, Txt00, Undefined)),
              NoRemoval)
    /\ UNCHANGED <<formVars, harnessVars>>

Level0Form_handleSystemNameChange(name) ==
    /\ FormOpen(0)
    /\ LET i == findProcess00(diagram.nodes)
       IN  /\ i # 0
           /\ Commit(setDiagramName(updateNode(diagram, diagram.nodes[i].id, [label |-> name]),
                                    name),
                     NoRemoval)
    /\ UNCHANGED <<formVars, harnessVars>>

Level0Form_handleAddEntity(entityName) ==
    /\ FormOpen(0)
    /\ ~TrimIsEmpty(entityName)
    /\ RoomForNode
    /\ Commit(addNode(diagram, Node(randomId("e-"), "entity", entityName, 0,
                                    Undefined, Undefined)),
              NoRemoval)
    /\ UNCHANGED <<formVars, harnessVars>>

\* onClick={() => removeNode(entity.id)}
Level0Form_removeNode(k) ==
    /\ FormOpen(0)
    /\ LET entities == levelNodes(0, {"entity"})
       IN  /\ k \in 1..Len(entities)
           /\ Commit(removeNode(diagram, entities[k].id),
                     Removal(diagram, removeNode(diagram, entities[k].id), entities[k].id))
    /\ UNCHANGED <<formVars, harnessVars>>

Level1Form_handleAddEntity(entityName) ==
    /\ FormOpen(1)
    /\ ~TrimIsEmpty(entityName)
    /\ RoomForNode
    /\ Commit(addNode(diagram, Node(randomId("e1-"), "entity", entityName, 1,
                                    Undefined, Undefined)),
              NoRemoval)
    /\ UNCHANGED <<formVars, harnessVars>>

Level1Form_handleAddDatastore(datastoreName) ==
    /\ FormOpen(1)
    /\ ~TrimIsEmpty(datastoreName)
    /\ RoomForNode
    /\ LET storeCode == <<"D">> \o NatToStr(Len(levelNodes(1, {"datastore"})) + 1)
       IN  Commit(addNode(diagram, Node(randomId("ds1-"), "datastore", datastoreName, 1,
                                        Undefined, storeCode)),
                  NoRemoval)
    /\ UNCHANGED <<formVars, harnessVars>>

Level1Form_handleAddProcess ==
    /\ FormOpen(1)
    /\ RoomForNode
    /\ LET processNumber == NatToStr(Len(processes) + 1) \o <<".", "0">>
           newProcess == ProcessDefinition(randomId("proc-"), processNumber, TxtEmpty)
       IN  /\ processes' = Append(processes, newProcess)
           /\ Commit(addNode(diagram, Node(newProcess.id, "process", TxtNewProcess, 1,
                                           processNumber, Undefined)),
                     NoRemoval)
    /\ UNCHANGED <<currentLevel, subProcesses, harnessVars>>

Level1Form_handleUpdateProcessName(k, name) ==
    /\ FormOpen(1)
    /\ k \in 1..Len(processes)
    /\ RoomForNode
    /\ LET processId == processes[k].id
           i == findNodeById(diagram.nodes, processId)
       IN  /\ processes' = [j \in 1..Len(processes) |->
                               IF processes[j].id = processId
                               THEN [processes[j] EXCEPT !.name = name]
                               ELSE processes[j]]
           /\ IF i # 0
              THEN Commit(addNode(diagram, [diagram.nodes[i] EXCEPT !.label = orNewProcess(name)]),
                          NoRemoval)
              ELSE UNCHANGED storeVars
    /\ UNCHANGED <<currentLevel, subProcesses, harnessVars>>

Level1Form_handleDeleteProcess(k) ==
    /\ FormOpen(1)
    /\ k \in 1..Len(processes)
    /\ LET processId == processes[k].id
           after == removeNode(removeEdges(diagram, incidentEdgeIds(diagram, processId)),
                               processId)
       IN  /\ Commit(after, Removal(diagram, after, processId))
           /\ processes' = SelectSeq(processes, LAMBDA q : q.id # processId)
    /\ UNCHANGED <<currentLevel, subProcesses, harnessVars>>

\* onClick={() => removeNode(entity.id)}, onClick={() => removeNode(store.id)}
Level1Form_removeNode(k) ==
    /\ FormOpen(1)
    /\ LET listed == levelNodes(1, {"entity", "datastore"})
       IN  /\ k \in 1..Len(listed)
           /\ Commit(removeNode(diagram, listed[k].id),
                     Removal(diagram, removeNode(diagram, listed[k].id), listed[k].id))
    /\ UNCHANGED <<formVars, harnessVars>>

Level2Form_handleAddParticipant(participantName, participantType) ==
    /\ FormOpen(2)
    /\ ~TrimIsEmpty(participantName)
    /\ RoomForNode
    /\ Commit(addNode(diagram, Node(randomId("ext_"), participantType, participantName, 2,
                                    Undefined, Undefined)),
              NoRemoval)
    /\ UNCHANGED <<formVars, harnessVars>>

Level2Form_handleAddDatastore(datastoreName) ==
    /\ FormOpen(2)
    /\ ~TrimIsEmpty(datastoreName)
    /\ RoomForNode
    /\ LET storeCode == <<"D">> \o NatToStr(Len(levelNodes(2, {"datastore"})) + 1)
       IN  Commit(addNode(diagram, Node(randomId("ds2-"), "datastore", datastoreName, 2,
                                        Undefined, storeCode)),
                  NoRemoval)
    /\ UNCHANGED <<formVars, harnessVars>>

Level2Form_handleAddSubProcess(parentProcessNumber) ==
    /\ FormOpen(2)
    /\ RoomForNode
    /\ LET nextNum == Len(levelNodes(2, {"process"})) + 1
           number == IF Falsy(parentProcessNumber)
                     THEN <<"?", ".">> \o NatToStr(nextNum)
                     ELSE parentProcessNumber \o <<".">> \o NatToStr(nextNum)
           newProcess == ProcessDefinition(randomId("sp_"), number, TxtEmpty)
       IN  /\ subProcesses' = Append(subProcesses, newProcess)
           /\ Commit(addNode(diagram, Node(newProcess.id, "process", TxtNewProcess, 2,
                                           number, Undefined)),
                     NoRemoval)
    /\ UNCHANGED <<currentLevel, processes, harnessVars>>

Level2Form_handleUpdateSubProcessName(k, name) ==
    /\ FormOpen(2)
    /\ k \in 1..Len(subProcesses)
    /\ RoomForNode
    /\ LET id == subProcesses[k].id
           i == findNodeById(diagram.nodes, id)
       IN  /\ subProcesses' = [j \in 1..Len(subProcesses) |->
                                  IF subProcesses[j].id = id
                                  THEN [subProcesses[j] EXCEPT !.name = name]
                                  ELSE subProcesses[j]]
           /\ IF i # 0
              THEN Commit(addNode(diagram, [diagram.nodes[i] EXCEPT !.label = orNewProcess(name)]),
                          NoRemoval)
              ELSE UNCHANGED storeVars
    /\ UNCHANGED <<currentLevel, processes, harnessVars>>

Level2Form_handleUpdateSubProcessNumber(k, number) ==
    /\ FormOpen(2)
    /\ k \in 1..Len(subProcesses)
    /\ RoomForNode
    /\ LET id == subProcesses[k].id
           i == findNodeById(diagram.nodes, id)
       IN  /\ subProcesses' = [j \in 1..Len(subProcesses) |->
                                  IF subProcesses[j].id = id
                                  THEN [subProcesses[j] EXCEPT !.number = number]
                                  ELSE subProcesses[j]]
           /\ IF i # 0
              THEN Commit(addNode(diagram, [diagram.nodes[i] EXCEPT !.processNumber = number]),
                          NoRemoval)
              ELSE UNCHANGED storeVars
    /\ UNCHANGED <<currentLevel, processes, harnessVars>>

Level2Form_handleDeleteSubProcess(k) ==
    /\ FormOpen(2)
    /\ k \in 1..Len(subProcesses)
    /\ LET id == subProcesses[k].id
           after == removeNode(removeEdges(diagram, incidentEdgeIds(diagram, id)), id)
       IN  /\ Commit(after, Removal(diagram, after, id))
           /\ subProcesses' = SelectSeq(subProcesses, LAMBDA q : q.id # id)
    /\ UNCHANGED <<currentLevel, processes, harnessVars>>

\* onClick={() => removeNode(p.id)}, onClick={() => removeNode(ds.id)}
Level2Form_removeNode(k) ==
    /\ FormOpen(2)
    /\ LET listed == levelNodes(2, {"entity", "process_ref", "datastore"})
       IN  /\ k \in 1..Len(listed)
           /\ Commit(removeNode(diagram, listed[k].id),
                     Removal(diagram, removeNode(diagram, listed[k].id), listed[k].id))
    /\ UNCHANGED <<formVars, harnessVars>>

NextForms ==
    \/ \E level \in DFDLevel : SetCurrentLevel(level)
    \/ Level0Form_useEffect
    \/ \E name \in RenameInputs : Level0Form_handleSystemNameChange(name)
    \/ \E name \in NameInputs : Level0Form_handleAddEntity(name)
    \/ \E k \in 1..MaxFormNodes : Level0Form_removeNode(k)
    \/ \E name \in NameInputs : Level1Form_handleAddEntity(name)
    \/ \E name \in NameInputs : Level1Form_handleAddDatastore(name)
    \/ Level1Form_handleAddProcess
    \/ \E k \in 1..MaxFormNodes, name \in RenameInputs : Level1Form_handleUpdateProcessName(k, name)
    \/ \E k \in 1..MaxFormNodes : Level1Form_handleDeleteProcess(k)
    \/ \E k \in 1..MaxFormNodes : Level1Form_removeNode(k)
    \/ \E name \in NameInputs, type \in ParticipantTypes :
          Level2Form_handleAddParticipant(name, type)
    \/ \E name \in NameInputs : Level2Form_handleAddDatastore(name)
    \/ \E parent \in ParentNumberInputs : Level2Form_handleAddSubProcess(parent)
    \/ \E k \in 1..MaxFormNodes, name \in RenameInputs :
          Level2Form_handleUpdateSubProcessName(k, name)
    \/ \E k \in 1..MaxFormNodes, number \in NumberInputs :
          Level2Form_handleUpdateSubProcessNumber(k, number)
    \/ \E k \in 1..MaxFormNodes : Level2Form_handleDeleteSubProcess(k)
    \/ \E k \in 1..MaxFormNodes : Level2Form_removeNode(k)

SpecForms == InitForms /\ [][NextForms]_vars

----------------------------------------------------------------------------
(* Level0Form, flows: the form of the context diagram with its entities    *)
(* and its flow pairs.                                                     *)

\* crypto.randomUUID().slice(0, n) for an edge id or a pair id: a value none
\* of taken is; the first such of the list.
randomSuffix(prefix, taken) ==
    LET free == {k \in 1..Len(IdSuffixes) : (prefix \o IdSuffixes[k]) \notin taken}
        k == CHOOSE k \in free : \A j \in free : k <= j
    IN  prefix \o IdSuffixes[k]

EdgeIdsOf(d) == {d.edges[i].id : i \in 1..Len(d.edges)}

hasPairId(e) == "pairId" \in DOMAIN e

PairIdsOf(d) == {d.edges[i].pairId : i \in {j \in 1..Len(d.edges) : hasPairId(d.edges[j])}}

\* The edge object handleAddFlow builds.
FlowEdge(id, label, sourceNodeId, targetNodeId, pairId) ==
    [id |-> id, type |-> "dataflow", label |-> label,
     sourceNodeId |-> sourceNodeId, targetNodeId |-> targetNodeId,
     sourceHandle |-> id, targetHandle |-> id, level |-> 0, pairId |-> pairId]

\* The two addEdge calls of handleAddFlow: the in-flow, then the out-flow.
addFlowPair(d, inFlowName, outFlowName, selectedEntityId, mainProcessId) ==
    LET pairId == randomSuffix("pair-", PairIdsOf(d))
        inEdgeId == randomSuffix("df-", EdgeIdsOf(d))
        outEdgeId == randomSuffix("df-", EdgeIdsOf(d) \cup {inEdgeId})
    IN  addEdge(addEdge(d, FlowEdge(inEdgeId, inFlowName, selectedEntityId,
                                    mainProcessId, pairId)),
                FlowEdge(outEdgeId, outFlowName, mainProcessId, selectedEntityId, pairId))

\* The delete button removing the flow it belongs to and no other.
deleteFlowAlone(d, flowId) == removeEdge(d, flowId)

\* handleDeleteFlowPair: the diagram after its removeEdge calls.
deleteFlowPair(d, flowId) ==
    LET hits == SelectSeq(d.edges, LAMBDA e : e.id = flowId)
        flow == hits[1]
        pairedFlows == SelectSeq(d.edges, LAMBDA e : hasPairId(e) /\ e.pairId = flow.pairId)
    IN  IF hits = <<>> THEN d
        ELSE IF hasPairId(flow)
        THEN removeEdges(d, [k \in 1..Len(pairedFlows) |-> pairedFlows[k].id])
        ELSE removeEdge(d, flowId)

\* What selectedEntityId can hold: nothing, an entity of the list, or an
\* entity that was selected and then removed.
SelectableEntityIds ==
    {""} \cup {diagram.nodes[i].id :
                 i \in {j \in 1..Len(diagram.nodes) :
                          diagram.nodes[j].type = "entity" /\ diagram.nodes[j].level = 0}}
         \cup (IF lastRemoved.id = UndefinedId THEN {} ELSE {lastRemoved.id})

Level0Form_handleAddFlow(inFlowName, outFlowName, selectedEntityId) ==
    /\ FormOpen(0)
    /\ ~TrimIsEmpty(inFlowName)
    /\ ~TrimIsEmpty(outFlowName)
    /\ selectedEntityId # ""
    /\ findProcess00(diagram.nodes) # 0
    /\ Len(diagram.edges) + 2 <= MaxFormEdges
    /\ Commit(addFlowPair(diagram, inFlowName, outFlowName, selectedEntityId,
                          diagram.nodes[findProcess00(diagram.nodes)].id),
              NoRemoval)
    /\ UNCHANGED <<formVars, harnessVars>>

\* onClick={() => handleDeleteFlowPair(flow.id)} on the k-th listed flow
Level0Form_handleDeleteFlowPair(k) ==
    /\ FormOpen(0)
    /\ LET flows == SelectSeq(diagram.edges, LAMBDA e : e.level = 0)
       IN  /\ k \in 1..Len(flows)
           /\ Commit(deleteFlowPair(diagram, flows[k].id), NoRemoval)
    /\ UNCHANGED <<formVars, harnessVars>>

FlowNameInputs == {TxtName, TxtSpace}

NextFlows ==
    \/ Level0Form_useEffect
    \/ Level0Form_handleAddEntity(TxtName)
    \/ \E k \in 1..MaxFormNodes : Level0Form_removeNode(k)
    \/ \E inFlowName \in FlowNameInputs, selectedEntityId \in SelectableEntityIds :
         Level0Form_handleAddFlow(inFlowName, TxtName, selectedEntityId)
    \/ \E k \in 1..MaxFormEdges : Level0Form_handleDeleteFlowPair(k)

SpecFlows == InitForms /\ [][NextFlows]_vars

----------------------------------------------------------------------------
(* components/diagram/level0/EntityNode: the handle position codec.        *)

Sides == {"top", "right", "bottom", "left"}

HandlePosition(side, offset) == [side |-> side, offset |-> offset]

\* Math.max(0, Math.min(100, x))
clampPercent(x) == DMax(DInt(0), DMin(DInt(100), x))

decodePosition(encodedOffset) ==
    IF DEq(encodedOffset, DZero) THEN HandlePosition("right", DInt(50))
    ELSE LET normalizedOffset == clampPercent(encodedOffset)
             within(base) == DMul(DDiv(DSub(normalizedOffset, DInt(base)), DInt(25)), DInt(100))
         IN  IF DLeq(DInt(0), normalizedOffset) /\ DLess(normalizedOffset, DInt(25))
             THEN HandlePosition("top", DMul(DDiv(normalizedOffset, DInt(25)), DInt(100)))
             ELSE IF DLeq(DInt(25), normalizedOffset) /\ DLess(normalizedOffset, DInt(50))
             THEN HandlePosition("right", within(25))
             ELSE IF DLeq(DInt(50), normalizedOffset) /\ DLess(normalizedOffset, DInt(75))
             THEN HandlePosition("bottom", within(50))
             ELSE HandlePosition("left", within(75))

encodePosition(side, offset) ==
    LET normalizedOffset == clampPercent(offset)
        along == DMul(DDiv(normalizedOffset, DInt(100)), DInt(25))
    IN  CASE side = "top" -> along
          [] side = "right" -> DAdd(DInt(25), along)
          [] side = "bottom" -> DAdd(DInt(50), along)
          [] side = "left" -> DAdd(DInt(75), along)

\* The largest double below 100.
Below100 == DSub(DInt(100), DRound(FALSE, <<1>>, -46, FALSE))

\* Offsets strictly between 0 and 100 that the mouse can produce: the whole
\* percentages, some fractions, and the last double before 100.
CodecOffsets ==
    { DInt(n) : n \in 1..99 }
        \cup { DDec(5, 1), DDec(125, 1), DDec(3333, 2), DDec(999, 1), Below100 }

InitCodec ==
    /\ diagram = INITIAL_DIAGRAM
    /\ validationResults = <<>>
    /\ lastRemoved = NoRemoval
    /\ nodeDrags = 0
    /\ FormsIdle
    /\ firstRun = NotRun
    /\ secondRun = NotRun
    /\ filterArg = <<>>
    /\ filtered = NotRun
    /\ \E side \in Sides, offset \in CodecOffsets :
         codec = [stage |-> "moved", side |-> side, offset |-> offset]
    /\ layoutCall = NoLayout
    /\ entityNode = NotMounted
    /\ processNode = NotMounted
    /\ edgeProps = NoProps
    /\ view = NotMounted
    /\ isLabelSelected = FALSE
    /\ toggles = <<>>
    /\ lastKey = [key |-> UndefinedId]

\* handleMouseMove: const encodedOffset = encodePosition(side, offset)
EncodeHandle ==
    /\ codec.stage = "moved"
    /\ codec' = [stage |-> "stored", side |-> codec.side, offset |-> codec.offset,
                 encoded |-> encodePosition(codec.side, codec.offset)]
    /\ UNCHANGED <<storeVars, formVars, nodeDrags, firstRun, secondRun, filterArg, filtered,
                   layoutCall, entityNode, edgeProps, view, isLabelSelected, toggles, lastKey,
                   processNode>>

\* the next render: const decoded = decodePosition(storedOffset)
DecodeHandle ==
    /\ codec.stage = "stored"
    /\ codec' = [stage |-> "rendered", side |-> codec.side, offset |-> codec.offset,
                 encoded |-> codec.encoded, decoded |-> decodePosition(codec.encoded)]
    /\ UNCHANGED <<storeVars, formVars, nodeDrags, firstRun, secondRun, filterArg, filtered,
                   layoutCall, entityNode, edgeProps, view, isLabelSelected, toggles, lastKey,
                   processNode>>

NextCodec == EncodeHandle \/ DecodeHandle

SpecCodec == InitCodec /\ [][NextCodec]_vars

----------------------------------------------------------------------------
(* components/diagram/level0/EntityNode: the handles of one render.        *)

\* const width = data.width || 120 and const height = data.height || 120
sideOr120(data, field) ==
    IF field \in DOMAIN data /\ IsFinite(data[field]) /\ ~IsZero(data[field])
    THEN data[field]
    ELSE DInt(120)

\* const minSpacingPx = 25
minSpacingPx == DInt(25)

\* The ids of the flows of the harness, in the order of localeCompare.
FlowIdOrder == <<"df-1", "df-2", "df-3", "df-4", "df-5", "df-6", "df-7", "df-8", "df-9">>

localeRank(id) == CHOOSE k \in 1..Len(FlowIdOrder) : FlowIdOrder[k] = id

EntityHandle(id, side, offset, type) ==
    [id |-> id, side |-> side, offset |-> offset, type |-> type]

\* One raw handle: the stored offset decoded when it is neither undefined
\* nor 0, and the middle of defaultSide otherwise.
rawHandleOf(flow, field, defaultSide, type) ==
    IF field \in DOMAIN flow /\ ~IsZero(flow[field])
    THEN EntityHandle(flow.id, decodePosition(flow[field]).side,
                      decodePosition(flow[field]).offset, type)
    ELSE EntityHandle(flow.id, defaultSide, DInt(50), type)

\* rawHandles: the incoming flows, then the outgoing flows.
entityRawHandles(d, id) ==
    LET incomingFlows == SelectSeq(d.edges, LAMBDA e : e.targetNodeId = id
                                                       /\ e.sourceNodeId # id)
        outgoingFlows == SelectSeq(d.edges, LAMBDA e : e.sourceNodeId = id
                                                       /\ e.targetNodeId # id)
    IN  [i \in 1..Len(incomingFlows) |->
            rawHandleOf(incomingFlows[i], "targetAngleOffset", "bottom", "target")]
        \o [i \in 1..Len(outgoingFlows) |->
              rawHandleOf(outgoingFlows[i], "sourceAngleOffset", "right", "source")]

\* The comparator of the sort of sideHandles: TRUE when a goes before b.
handleGoesFirst(a, b) ==
    IF DLess(DDec(1, 1), DAbs(DSub(a.offset, b.offset)))
    THEN DLess(a.offset, b.offset)
    ELSE localeRank(a.id) < localeRank(b.id)

\* A handle put in its place among sorted ones.
insertHandle(sorted, handle) ==
    SelectSeq(sorted, LAMBDA h : ~handleGoesFirst(handle, h))
        \o <<handle>>
        \o SelectSeq(sorted, LAMBDA h : handleGoesFirst(handle, h))

RECURSIVE sortSideHandles(_)
sortSideHandles(handles) ==
    IF handles = <<>> THEN <<>>
    ELSE insertHandle(sortSideHandles(SubSeq(handles, 1, Len(handles) - 1)),
                      handles[Len(handles)])

\* A number put in its place among sorted ones.
insertNumber(sorted, number) ==
    SelectSeq(sorted, LAMBDA p : ~DLess(number, p))
        \o <<number>>
        \o SelectSeq(sorted, LAMBDA p : DLess(number, p))

\* positions.sort((a, b) => a - b)
RECURSIVE sortNumbers(_)
sortNumbers(positions) ==
    IF positions = <<>> THEN <<>>
    ELSE insertNumber(sortNumbers(SubSeq(positions, 1, Len(positions) - 1)),
                      positions[Len(positions)])

\* The positions i and i + 1 set to center - halfSpace and center + halfSpace.
aroundCenter(positions, i, center, halfSpace) ==
    [positions EXCEPT ![i] = DSub(center, halfSpace), ![i + 1] = DAdd(center, halfSpace)]

\* The two positions i and i + 1 pushed apart symmetrically around the
\* centre of their overlap.
pushedApart(positions, i, minSpacing) ==
    aroundCenter(positions, i, DDiv(DAdd(positions[i], positions[i + 1]), DInt(2)),
                 DDiv(minSpacing, DInt(2)))

\* The for loop of one iteration, from the pair at i on: the positions it
\* leaves and whether it changed any.
RECURSIVE relaxPairs(_, _, _, _)
relaxPairs(positions, i, changed, minSpacing) ==
    IF i >= Len(positions) THEN [positions |-> positions, changed |-> changed]
    ELSE IF DLess(DSub(positions[i + 1], positions[i]), minSpacing)
         THEN relaxPairs(pushedApart(positions, i, minSpacing), i + 1, TRUE, minSpacing)
         ELSE relaxPairs(positions, i + 1, changed, minSpacing)

\* while (changed && iterations < 10), entered with iterations done and
\* changed true; afterPass is the end of one iteration, with the sort.
RECURSIVE relaxPositions(_, _, _)
RECURSIVE afterPass(_, _, _)
afterPass(pass, iterations, minSpacing) ==
    IF pass.changed
    THEN relaxPositions(sortNumbers(pass.positions), iterations, minSpacing)
    ELSE sortNumbers(pass.positions)

relaxPositions(positions, iterations, minSpacing) ==
    IF iterations >= 10 THEN positions
    ELSE afterPass(relaxPairs(positions, 1, FALSE, minSpacing), iterations + 1, minSpacing)

\* sideHandles with the visual offsets of their positions.
withVisualOffsets(sideHandles, positionsPx, sideLength) ==
    [i \in 1..Len(sideHandles) |->
        EntityHandle(sideHandles[i].id, sideHandles[i].side,
                     DMul(DDiv(positionsPx[i], sideLength), DInt(100)),
                     sideHandles[i].type)]

\* The sorted handles of one side, relaxed.
relaxSide(sideHandles, sideLength) ==
    withVisualOffsets(
        sideHandles,
        relaxPositions([i \in 1..Len(sideHandles) |->
                           DMul(DDiv(sideHandles[i].offset, DInt(100)), sideLength)],
                       0, minSpacingPx),
        sideLength)

\* The handles of one side with their visual offsets.
distributeSide(rawHandles, side, sideLength) ==
    relaxSide(sortSideHandles(SelectSeq(rawHandles, LAMBDA h : h.side = side)), sideLength)

\* distributedHandles: the sides in the order top, right, bottom, left.
distributedHandlesOf(rawHandles, width, height) ==
    distributeSide(rawHandles, "top", width)
        \o distributeSide(rawHandles, "right", height)
        \o distributeSide(rawHandles, "bottom", width)
        \o distributeSide(rawHandles, "left", height)

\* The effect under "Check for Resize Need": it sets the timer of
\* updateNodeInternals and returns the cleanup of that timer.  The
\* congestion check and its updateNode stand after that return and never
\* run, whatever the handles are.
checkForResizeNeed(distributedHandles, width, height) ==
    [updateNodeInternals |-> TRUE, updateNode |-> FALSE]

\* getHandleStyleAndPosition: the percentage of the style, clamped.
getHandleStyleAndPosition(side, offset) ==
    [side |-> side, position |-> side, percent |-> clampPercent(offset)]

\* What one render returns.
renderedEntity(id, width, height, distributedHandles) ==
    [mounted |-> TRUE, id |-> id, width |-> width, height |-> height,
     handles |-> [i \in 1..Len(distributedHandles) |->
                     [id |-> distributedHandles[i].id,
                      type |-> distributedHandles[i].type,
                      offset |-> distributedHandles[i].offset,
                      style |-> getHandleStyleAndPosition(distributedHandles[i].side,
                                                          distributedHandles[i].offset)]],
     effect |-> checkForResizeNeed(distributedHandles, width, height)]

\* One render of EntityNode.
renderEntityNode(d, id) ==
    renderedEntity(id,
                   sideOr120(d.nodes[findNode(d, id)], "width"),
                   sideOr120(d.nodes[findNode(d, id)], "height"),
                   distributedHandlesOf(entityRawHandles(d, id),
                                        sideOr120(d.nodes[findNode(d, id)], "width"),
                                        sideOr120(d.nodes[findNode(d, id)], "height")))

----------------------------------------------------------------------------
(* components/diagram/level0/Level0Edge: where the router puts the handle  *)
(* of another edge on a rectangular node.                                  *)

\* decodeEntityPosition
decodeEntityPosition(encodedOffset) ==
    IF DEq(encodedOffset, DZero) THEN HandlePosition("right", DInt(50))
    ELSE IF DLess(clampPercent(encodedOffset), DInt(25))
    THEN HandlePosition("top",
                        DMul(DDiv(clampPercent(encodedOffset), DInt(25)), DInt(100)))
    ELSE IF DLess(clampPercent(encodedOffset), DInt(50))
    THEN HandlePosition("right",
                        DMul(DDiv(DSub(clampPercent(encodedOffset), DInt(25)), DInt(25)),
                             DInt(100)))
    ELSE IF DLess(clampPercent(encodedOffset), DInt(75))
    THEN HandlePosition("bottom",
                        DMul(DDiv(DSub(clampPercent(encodedOffset), DInt(50)), DInt(25)),
                             DInt(100)))
    ELSE HandlePosition("left",
                        DMul(DDiv(DSub(clampPercent(encodedOffset), DInt(75)), DInt(25)),
                             DInt(100)))

\* decodeDataStorePosition
decodeDataStorePosition(encodedOffset) ==
    IF DEq(encodedOffset, DZero) THEN HandlePosition("bottom", DInt(50))
    ELSE IF DLess(clampPercent(encodedOffset), DInt(50))
    THEN HandlePosition("top",
                        DMul(DDiv(clampPercent(encodedOffset), DInt(50)), DInt(100)))
    ELSE HandlePosition("bottom",
                        DMul(DDiv(DSub(clampPercent(encodedOffset), DInt(50)), DInt(50)),
                             DInt(100)))

\* node.width ?? 150 and node.height ?? 80
measuredOr(node, field, default) ==
    IF field \in DOMAIN node THEN node[field] ELSE DInt(default)

\* offset ?? 0, of the end of the edge asked for
endOffsetOrZero(edge, isSourceHandle) ==
    IF isSourceHandle
    THEN (IF "sourceAngleOffset" \in DOMAIN edge THEN edge.sourceAngleOffset ELSE DZero)
    ELSE (IF "targetAngleOffset" \in DOMAIN edge THEN edge.targetAngleOffset ELSE DZero)

\* The point of a side of the rectangle at x, y of size w by h that lies
\* pct per cent along it: x + (w * pct / 100) and y + (h * pct / 100).
pointOfSide(side, pct, x, y, w, h) ==
    CASE side = "top" -> [x |-> DAdd(x, DDiv(DMul(w, pct), DInt(100))), y |-> y]
      [] side = "bottom" -> [x |-> DAdd(x, DDiv(DMul(w, pct), DInt(100))), y |-> DAdd(y, h)]
      [] side = "left" -> [x |-> x, y |-> DAdd(y, DDiv(DMul(h, pct), DInt(100)))]
      [] side = "right" -> [x |-> DAdd(x, w), y |-> DAdd(y, DDiv(DMul(h, pct), DInt(100)))]

\* getNodeHandlePosition, for the nodes that are not circles.  (A process
\* or process_ref goes to getProcessHandlePosition, which places the
\* handle with Math.cos and Math.sin.)
getNodeHandlePosition(node, edge, isSourceHandle) ==
    CASE node.type = "entity" ->
           pointOfSide(decodeEntityPosition(endOffsetOrZero(edge, isSourceHandle)).side,
                       decodeEntityPosition(endOffsetOrZero(edge, isSourceHandle)).offset,
                       node.position.x, node.position.y,
                       measuredOr(node, "width", 150), measuredOr(node, "height", 80))
      [] node.type = "datastore" ->
           pointOfSide(decodeDataStorePosition(endOffsetOrZero(edge, isSourceHandle)).side,
                       decodeDataStorePosition(endOffsetOrZero(edge, isSourceHandle)).offset,
                       node.position.x, node.position.y,
                       measuredOr(node, "width", 150), measuredOr(node, "height", 80))
      [] node.type \notin {"entity", "datastore", "process", "process_ref"} ->
           [x |-> DAdd(node.position.x, DDiv(measuredOr(node, "width", 150), DInt(2))),
            y |-> DAdd(node.position.y, DDiv(measuredOr(node, "height", 80), DInt(2)))]

(* The harness of EntityNode: a context diagram with one process and one   *)
(* entity, some flows into the entity and some out of it.  The flows into  *)
(* the entity all have the same stored offset, or none.                    *)

MaxSideHandles == 6

\* Stored offsets of the flows into the entity: none, the 0 that stands for
\* unset, the middle of the bottom side, and a point 2 % before its end.
EntityStoredOffsets ==
    {DUndefined, DInt(0), encodePosition("bottom", DInt(50)), encodePosition("bottom", DInt(98))}

\* Widths and heights of the entity: none, and 200.
EntitySizes == {DUndefined, DInt(200)}

EntityFlow(k, sourceNodeId, targetNodeId, stored) ==
    IF stored = DUndefined
    THEN DFDEdge(FlowIdOrder[k], TxtName, sourceNodeId, targetNodeId, 0)
    ELSE Spread(DFDEdge(FlowIdOrder[k], TxtName, sourceNodeId, targetNodeId, 0),
                [targetAngleOffset |-> stored])

EntityDiagram(size, inFlows, outFlows, stored) ==
    LET entity == PlacedNode(Node("e-a", "entity", TxtName, 0, Undefined, Undefined),
                             DInt(0), DInt(0))
    IN  Diagram(0,
                << Node("p-0.0", "process", TxtSystem, 0, Txt00, Undefined),
                   IF size = DUndefined THEN entity
                   ELSE Spread(entity, [width |-> size, height |-> size]) >>,
                [k \in 1..inFlows |-> EntityFlow(k, "p-0.0", "e-a", stored)]
                  \o [k \in 1..outFlows |->
                        EntityFlow(inFlows + k, "e-a", "p-0.0", DUndefined)])

InitEntity ==
    /\ \E size \in EntitySizes, inFlows \in 1..MaxSideHandles, outFlows \in 0..1,
          stored \in EntityStoredOffsets :
         diagram = EntityDiagram(size, inFlows, outFlows, stored)
    /\ validationResults = <<>>
    /\ lastRemoved = NoRemoval
    /\ nodeDrags = 0
    /\ FormsIdle
    /\ firstRun = NotRun
    /\ secondRun = NotRun
    /\ filterArg = <<>>
    /\ filtered = NotRun
    /\ codec = NoCodec
    /\ layoutCall = NoLayout
    /\ entityNode = NotMounted
    /\ processNode = NotMounted
    /\ edgeProps = NoProps
    /\ view = NotMounted
    /\ isLabelSelected = FALSE
    /\ toggles = <<>>
    /\ lastKey = [key |-> UndefinedId]

\* React renders the EntityNode of the entity.
RenderEntityNode ==
    /\ ~entityNode.mounted
    /\ \E rendered \in { renderEntityNode(diagram, "e-a") } : entityNode' = rendered
    /\ UNCHANGED <<storeVars, formVars, nodeDrags, firstRun, secondRun, filterArg, filtered,
                   codec, layoutCall, edgeProps, view, isLabelSelected, toggles, lastKey,
                   processNode>>

NextEntity == RenderEntityNode

SpecEntity == InitEntity /\ [][NextEntity]_vars

----------------------------------------------------------------------------
(* components/diagram/level0/Level0Edge: CustomOrthogonalEdge.  Screen     *)
(* coordinates are whole pixels, which doubles hold exactly; the label     *)
(* anchor, computed with fractions, is a double.  What React Flow gives    *)
(* the component is an input: its props, the points and centre of          *)
(* getSmoothStepPath's step path, and for every other edge whether         *)
(* getNodes() has both its end nodes and where getNodeHandlePosition puts  *)
(* its two handles.                                                        *)

Point(x, y) == [x |-> x, y |-> y]

Abs(n) == IF n < 0 THEN -n ELSE n

Min(a, b) == IF a < b THEN a ELSE b

Max(a, b) == IF a > b THEN a ELSE b

\* Math.sign(n) || 1
signOr1(n) == IF n < 0 THEN -1 ELSE 1

jumpRadius == 6

\* o.f of an optional string field
Optional(o, f) == IF f \in DOMAIN o THEN o[f] ELSE UndefinedId

\* diagram.edges.find(e => e.id === id): the edge found, if any.
findEdge(d, id) ==
    LET hits == SelectSeq(d.edges, LAMBDA e : e.id = id)
    IN  IF hits = <<>> THEN <<>> ELSE <<hits[1]>>

\* edge?.arrowDirection
storedDirectionOf(d, id) ==
    LET edge == findEdge(d, id)
    IN  IF edge = <<>> THEN UndefinedId ELSE Optional(edge[1], "arrowDirection")

\* The literals 0.5, 0.05, 0.1 and 0.9.
DefaultLabelOffset == DDec(5, 1)

LabelStep == DDec(5, 2)

MinLabelOffset == DDec(1, 1)

MaxLabelOffset == DDec(9, 1)

\* The default whatever the edge stores.
labelOffsetDefaultOnly(d, id) == DefaultLabelOffset

\* edge?.labelOffset ?? 0.5
labelOffsetOf(d, id) ==
    LET edge == findEdge(d, id)
    IN  IF edge # <<>> /\ "labelOffset" \in DOMAIN edge[1]
        THEN edge[1].labelOffset
        ELSE DefaultLabelOffset

\* edge?.level === 2
isLevel2(d, id) ==
    LET edge == findEdge(d, id) IN edge # <<>> /\ edge[1].level = 2

\* Smart routing on every level.
useSmartRoutingOnAnyLevel(d, id) ==
    storedDirectionOf(d, id) = UndefinedId \/ storedDirectionOf(d, id) = "smart"

useSmartRouting(d, id) ==
    isLevel2(d, id)
        /\ (storedDirectionOf(d, id) = UndefinedId \/ storedDirectionOf(d, id) = "smart")

\* The default direction taken from the target's side.
currentDirectionFromTarget(d, props) ==
    LET storedDirection == storedDirectionOf(d, props.id)
    IN  IF storedDirection # UndefinedId /\ storedDirection # "smart" THEN storedDirection
        ELSE IF props.targetPosition = "bottom" THEN "vertical-first"
        ELSE "horizontal-first"

\* currentDirection of the manual branch
currentDirection(d, props) ==
    LET storedDirection == storedDirectionOf(d, props.id)
    IN  IF storedDirection # UndefinedId /\ storedDirection # "smart" THEN storedDirection
        ELSE IF props.sourcePosition = "bottom" THEN "vertical-first"
        ELSE "horizontal-first"

\* segments of the manual L-shape
manualSegments(props, direction) ==
    LET source == Point(props.sourceX, props.sourceY)
        target == Point(props.targetX, props.targetY)
        corner == IF direction = "horizontal-first"
                  THEN Point(props.targetX, props.sourceY)
                  ELSE Point(props.sourceX, props.targetY)
    IN  << [p1 |-> source, p2 |-> corner], [p1 |-> corner, p2 |-> target] >>

\* getEdgeSegments(otherEdge): the L-shape another edge is taken to draw.
getEdgeSegments(otherEdge, flow) ==
    LET handles == flow[otherEdge.id]
        p1 == handles.p1
        p2 == handles.p2
        stored == Optional(otherEdge, "arrowDirection")
        dir == IF stored # "horizontal-first" /\ stored # "vertical-first"
               THEN "horizontal-first" ELSE stored
    IN  IF ~handles.found THEN <<>>
        ELSE IF dir = "horizontal-first"
        THEN << [p1 |-> Point(p1.x, p1.y), p2 |-> Point(p2.x, p1.y), type |-> "h"],
                [p1 |-> Point(p2.x, p1.y), p2 |-> Point(p2.x, p2.y), type |-> "v"] >>
        ELSE << [p1 |-> Point(p1.x, p1.y), p2 |-> Point(p1.x, p2.y), type |-> "v"],
                [p1 |-> Point(p1.x, p2.y), p2 |-> Point(p2.x, p2.y), type |-> "h"] >>

\* myType of a segment of the edge itself
segmentType(seg) == IF seg.p1.y = seg.p2.y THEN "h" ELSE "v"

\* The range test of a vertical segment of the edge against a horizontal
\* segment of another edge.
insideBoth(mySeg, otherSeg) ==
    LET minY == Min(mySeg.p1.y, mySeg.p2.y)
        maxY == Max(mySeg.p1.y, mySeg.p2.y)
        otherY == otherSeg.p1.y
        minX == Min(otherSeg.p1.x, otherSeg.p2.x)
        maxX == Max(otherSeg.p1.x, otherSeg.p2.x)
        myX == mySeg.p1.x
    IN  /\ otherY > minY + jumpRadius
        /\ otherY < maxY - jumpRadius
        /\ myX > minX + jumpRadius
        /\ myX < maxX - jumpRadius

\* A crossing recorded by whichever of the two segments is the edge's own.
crossingEitherWay(mySeg, myIdx, otherSeg) ==
    IF segmentType(mySeg) = otherSeg.type THEN <<>>
    ELSE IF segmentType(mySeg) = "v"
    THEN IF insideBoth(mySeg, otherSeg)
         THEN << [dist |-> Abs(otherSeg.p1.y - mySeg.p1.y),
                  pt |-> Point(mySeg.p1.x, otherSeg.p1.y),
                  segmentIndex |-> myIdx] >>
         ELSE <<>>
    ELSE IF insideBoth(otherSeg, mySeg)
    THEN << [dist |-> Abs(otherSeg.p1.x - mySeg.p1.x),
             pt |-> Point(otherSeg.p1.x, mySeg.p1.y),
             segmentIndex |-> myIdx] >>
    ELSE <<>>

\* What one pair of segments pushes onto intersections.
crossing(mySeg, myIdx, otherSeg) ==
    IF segmentType(mySeg) # otherSeg.type /\ segmentType(mySeg) = "v"
           /\ insideBoth(mySeg, otherSeg)
    THEN << [dist |-> Abs(otherSeg.p1.y - mySeg.p1.y),
             pt |-> Point(mySeg.p1.x, otherSeg.p1.y),
             segmentIndex |-> myIdx] >>
    ELSE <<>>

\* What the forEach over one other edge pushes onto intersections.
crossingsWith(segments, otherSegments) ==
    Flatten([i \in 1..Len(segments) |->
        Flatten([j \in 1..Len(otherSegments) |->
            crossing(segments[i], i - 1, otherSegments[j])])])

\* intersections
intersectionsOf(d, props, segments) ==
    IF useSmartRouting(d, props.id) THEN <<>>
    ELSE Flatten([k \in 1..Len(d.edges) |->
            IF d.edges[k].id = props.id THEN <<>>
            ELSE IF Optional(d.edges[k], "arrowDirection") = "smart" THEN <<>>
            ELSE crossingsWith(segments, getEdgeSegments(d.edges[k], props.flow))])

\* s with x put after the last element whose dist is not greater
RECURSIVE insertByDist(_, _)
insertByDist(s, x) ==
    IF s = <<>> THEN <<x>>
    ELSE IF s[Len(s)].dist <= x.dist THEN Append(s, x)
    ELSE Append(insertByDist(SubSeq(s, 1, Len(s) - 1), x), s[Len(s)])

\* .sort((a, b) => a.dist - b.dist), which is stable
RECURSIVE sortByDist(_)
sortByDist(s) ==
    IF s = <<>> THEN <<>>
    ELSE insertByDist(sortByDist(SubSeq(s, 1, Len(s) - 1)), s[Len(s)])

\* A command of an SVG path and the point it ends at.
Command(c, x, y) == [c |-> c, x |-> x, y |-> y]

\* The line to a jump's start and the arc to its end.
jumpCommands(seg, jump) ==
    IF seg.p1.y = seg.p2.y
    THEN LET signX == signOr1(seg.p2.x - seg.p1.x)
         IN  << Command("L", jump.pt.x - jumpRadius * signX, jump.pt.y),
                Command("A", jump.pt.x + jumpRadius * signX, jump.pt.y) >>
    ELSE LET signY == signOr1(seg.p2.y - seg.p1.y)
         IN  << Command("L", jump.pt.x, jump.pt.y - jumpRadius * signY),
                Command("A", jump.pt.x, jump.pt.y + jumpRadius * signY) >>

\* path of the manual branch
pathWithJumps(segments, intersections) ==
    << Command("M", segments[1].p1.x, segments[1].p1.y) >>
        \o Flatten([i \in 1..Len(segments) |->
              LET jumps == sortByDist(SelectSeq(intersections,
                                                LAMBDA x : x.segmentIndex = i - 1))
              IN  Flatten([j \in 1..Len(jumps) |-> jumpCommands(segments[i], jumps[j])])
                      \o << Command("L", segments[i].p2.x, segments[i].p2.y) >>])

\* The label anchor of the manual branch.
\* from + (to - from) * (part / length)
along(from, to, part, length) == DAdd(from, DMul(DSub(to, from), DDiv(part, length)))

\* The anchor at offsetDistance along the L-shape whose legs have the lengths
\* given.
labelAtDistance(sourceX, sourceY, targetX, targetY, horizontalLength, verticalLength,
                offsetDistance, direction) ==
    IF direction = "horizontal-first"
    THEN IF DLeq(offsetDistance, horizontalLength)
         THEN Point(along(sourceX, targetX, offsetDistance, horizontalLength), sourceY)
         ELSE Point(targetX,
                    along(sourceY, targetY, DSub(offsetDistance, horizontalLength),
                          verticalLength))
    ELSE IF DLeq(offsetDistance, verticalLength)
         THEN Point(sourceX, along(sourceY, targetY, offsetDistance, verticalLength))
         ELSE Point(along(sourceX, targetX, DSub(offsetDistance, verticalLength),
                          horizontalLength),
                    targetY)

\* totalLength and offsetDistance, and the anchor they give.
labelOnLengths(sourceX, sourceY, targetX, targetY, horizontalLength, verticalLength,
               direction, labelOffset) ==
    labelAtDistance(sourceX, sourceY, targetX, targetY, horizontalLength, verticalLength,
                    DMul(IF direction = "horizontal-first"
                         THEN DAdd(horizontalLength, verticalLength)
                         ELSE DAdd(verticalLength, horizontalLength),
                         labelOffset),
                    direction)

manualLabel(props, direction, labelOffset) ==
    labelOnLengths(DInt(props.sourceX), DInt(props.sourceY),
                   DInt(props.targetX), DInt(props.targetY),
                   DAbs(DSub(DInt(props.targetX), DInt(props.sourceX))),
                   DAbs(DSub(DInt(props.targetY), DInt(props.sourceY))),
                   direction, labelOffset)

\* seg.len > 0 ? innerLen / seg.len : 0
ratioOf(innerLen, len) == IF DLess(DZero, len) THEN DDiv(innerLen, len) ELSE DZero

\* Math.sqrt(dx * dx + dy * dy) of a piece of a step path, which runs along
\* one axis: the root of the square of a whole number is that number.
segmentLength(p1, p2) == DInt(Abs(p2.x - p1.x) + Abs(p2.y - p1.y))

\* The for loop over pathSegments from the segment at index i.
RECURSIVE labelAlong(_, _, _, _, _)
labelAlong(points, i, currentLen, targetLen, center) ==
    IF i >= Len(points) THEN center
    ELSE LET p1 == points[i]
             p2 == points[i + 1]
             len == segmentLength(p1, p2)
         IN  IF DLeq(targetLen, DAdd(currentLen, len))
             THEN LET ratio == ratioOf(DSub(targetLen, currentLen), len)
                  IN  Point(DAdd(DInt(p1.x), DMul(DInt(p2.x - p1.x), ratio)),
                            DAdd(DInt(p1.y), DMul(DInt(p2.y - p1.y), ratio)))
             ELSE labelAlong(points, i + 1, DAdd(currentLen, len), targetLen, center)

RECURSIVE totalLenFrom(_, _)
totalLenFrom(points, i) ==
    IF i >= Len(points) THEN DZero
    ELSE DAdd(segmentLength(points[i], points[i + 1]), totalLenFrom(points, i + 1))

\* The label anchor of the smart branch.
smartLabel(stepPath, labelOffset) ==
    LET points == stepPath.points
        center == Point(DInt(stepPath.centerX), DInt(stepPath.centerY))
    IN  IF Len(points) >= 2
        THEN labelAlong(points, 1, DZero, DMul(totalLenFrom(points, 1), labelOffset), center)
        ELSE center

\* path of the smart branch: the step path as getSmoothStepPath returns it.
stepCommands(points) ==
    [i \in 1..Len(points) |-> Command(IF i = 1 THEN "M" ELSE "L", points[i].x, points[i].y)]

\* One render of the component: what it draws and what its handlers close
\* over.
render(d, props) ==
    LET smart == useSmartRouting(d, props.id)
        direction == IF smart THEN "horizontal-first" ELSE currentDirection(d, props)
        labelOffset == labelOffsetOf(d, props.id)
        segments == IF smart THEN <<>> ELSE manualSegments(props, direction)
        intersections == IF smart THEN <<>> ELSE intersectionsOf(d, props, segments)
        label == IF smart THEN smartLabel(props.stepPath, labelOffset)
                 ELSE manualLabel(props, direction, labelOffset)
    IN  [mounted |-> TRUE,
         storedDirection |-> storedDirectionOf(d, props.id),
         labelOffset |-> labelOffset,
         isLevel2 |-> isLevel2(d, props.id),
         useSmartRouting |-> smart,
         currentDirection |-> direction,
         segments |-> segments,
         intersections |-> intersections,
         path |-> IF smart THEN stepCommands(props.stepPath.points)
                  ELSE pathWithJumps(segments, intersections),
         labelX |-> label.x,
         labelY |-> label.y]

----------------------------------------------------------------------------
(* Edge harness: one render of CustomOrthogonalEdge for an edge of a       *)
(* diagram with one other edge, props and React Flow values drawn from     *)
(* bounded sets.                                                           *)

EdgeDirections == {UndefinedId, "horizontal-first", "vertical-first", "smart"}

\* The edge with arrowDirection stored, unless it is undefined.
WithDirection(edge, dir) ==
    IF dir = UndefinedId THEN edge ELSE Spread(edge, [arrowDirection |-> dir])

\* The edge with labelOffset stored, unless it is undefined.
WithLabelOffset(edge, labelOffset) ==
    IF labelOffset = DUndefined THEN edge ELSE Spread(edge, [labelOffset |-> labelOffset])

\* Stored label offsets: none, and the corner fractions h / (h + v) of the
\* targets below.
RenderLabelOffsets ==
    { DUndefined, DDiv(DInt(100), DInt(150)), DDiv(DInt(15), DInt(22)),
      DDiv(DInt(7), DInt(25)) }

EdgeDiagram(level, dir, labelOffset, otherDir) ==
    Diagram(level, <<>>,
            << WithLabelOffset(WithDirection(DFDEdge("df-a", TxtName, "e-a", "p-0.0", level),
                                             dir), labelOffset),
               WithDirection(DFDEdge("df-b", TxtName, "p-0.0", "e-a", level), otherDir) >>)

\* Every level and direction of the edge, with every direction of the other
\* edge or with every stored label offset.
EdgeDiagrams ==
    { EdgeDiagram(level, dir, DUndefined, otherDir) :
        level \in DFDLevel, dir \in EdgeDirections, otherDir \in EdgeDirections }
        \cup { EdgeDiagram(level, dir, labelOffset, "horizontal-first") :
                 level \in DFDLevel, dir \in EdgeDirections,
                 labelOffset \in RenderLabelOffsets }

\* Where the edge ends, the source handle being at the origin.
TargetPoints ==
    { Point(100, 50), Point(0, 0), Point(100, 0), Point(0, 50), Point(15, 7), Point(7, 18) }

\* The step path between two handles: out of the source along its side's
\* axis to the middle, across, and into the target.
StepPath(sourcePosition, target) ==
    LET centerX == target.x \div 2
        centerY == target.y \div 2
    IN  [points |-> IF sourcePosition = "bottom"
                    THEN << Point(0, 0), Point(0, centerY), Point(target.x, centerY), target >>
                    ELSE << Point(0, 0), Point(centerX, 0), Point(centerX, target.y), target >>,
         centerX |-> centerX,
         centerY |-> centerY]

\* What React Flow has of the other edge: a line across the edge's vertical
\* leg, a line across its horizontal leg, a line within jumpRadius of the
\* leg's end, and an edge whose node is not rendered.
OtherHandles ==
    { [found |-> TRUE, p1 |-> Point(-50, 25), p2 |-> Point(150, 60)],
      [found |-> TRUE, p1 |-> Point(50, -30), p2 |-> Point(150, 80)],
      [found |-> TRUE, p1 |-> Point(-50, 3), p2 |-> Point(150, 3)],
      [found |-> FALSE, p1 |-> Point(0, 0), p2 |-> Point(0, 0)] }

EdgeProps(id, sourcePosition, target, handles) ==
    [id |-> id, sourceX |-> 0, sourceY |-> 0, targetX |-> target.x, targetY |-> target.y,
     sourcePosition |-> sourcePosition, targetPosition |-> "left",
     stepPath |-> StepPath(sourcePosition, target),
     flow |-> [e \in {"df-a", "df-b"} |-> handles]]

EdgePropsInputs ==
    { EdgeProps("df-a", sourcePosition, target, handles) :
        sourcePosition \in {"right", "bottom"}, target \in TargetPoints,
        handles \in OtherHandles }

InitEdge ==
    /\ diagram \in EdgeDiagrams
    /\ validationResults = <<>>
    /\ lastRemoved = NoRemoval
    /\ FormsIdle
    /\ HarnessIdle

\* React Flow renders the edge: CustomOrthogonalEdge(props)
RenderEdge ==
    /\ ~view.mounted
    /\ \E props \in EdgePropsInputs :
         /\ edgeProps' = props
         /\ view' = render(diagram, props)
    /\ UNCHANGED <<storeVars, formVars, nodeDrags, firstRun, secondRun, filterArg, filtered,
                   codec, layoutCall, entityNode,
                   processNode,
                   isLabelSelected, toggles, lastKey>>

NextEdge == RenderEdge

SpecEdge == InitEdge /\ [][NextEdge]_vars

----------------------------------------------------------------------------
(* Jump harness: one render of CustomOrthogonalEdge for a manual edge of a *)
(* diagram with two other manual edges.                                    *)

JumpDiagrams ==
    { Diagram(0, <<>>,
              << WithDirection(DFDEdge("df-a", TxtName, "e-a", "p-0.0", 0), dir),
                 WithDirection(DFDEdge("df-b", TxtName, "p-0.0", "e-a", 0), otherDir),
                 DFDEdge("df-c", TxtName, "e-b", "p-0.0", 0) >>) :
        dir \in {"horizontal-first", "vertical-first"},
        otherDir \in {UndefinedId, "vertical-first"} }

\* Where the edge ends, the source handle being at the origin.
JumpTargets == { Point(100, 50), Point(0, 50), Point(100, -50) }

\* What React Flow has of another edge: its two handles, the source handle
\* at one of five heights and on the right or the bottom side of its node, or
\* an edge whose node is not rendered.
JumpHandles ==
    { [found |-> TRUE, p1 |-> Point(-50, y), p2 |-> Point(150, 60),
       sourcePosition |-> sourcePosition] :
        y \in {-25, -20, 20, 25, 38}, sourcePosition \in {"right", "bottom"} }
      \cup { [found |-> FALSE, p1 |-> Point(0, 0), p2 |-> Point(0, 0),
              sourcePosition |-> "right"] }

\* The props React Flow hands to the component of another edge.
siblingProps(otherEdge, flow) ==
    [id |-> otherEdge.id,
     sourceX |-> flow[otherEdge.id].p1.x, sourceY |-> flow[otherEdge.id].p1.y,
     targetX |-> flow[otherEdge.id].p2.x, targetY |-> flow[otherEdge.id].p2.y,
     sourcePosition |-> flow[otherEdge.id].sourcePosition]

JumpProps(target, handlesB, handlesC) ==
    [EdgeProps("df-a", "right", target, handlesB) EXCEPT
        !.flow = [e \in {"df-a", "df-b", "df-c"} |->
                     IF e = "df-c" THEN handlesC ELSE handlesB]]

InitJumps ==
    /\ diagram \in JumpDiagrams
    /\ validationResults = <<>>
    /\ lastRemoved = NoRemoval
    /\ FormsIdle
    /\ HarnessIdle

\* React Flow renders the edge: CustomOrthogonalEdge(props)
RenderJumps ==
    /\ ~view.mounted
    /\ \E target \in JumpTargets, handlesB \in JumpHandles, handlesC \in JumpHandles :
         /\ edgeProps' = JumpProps(target, handlesB, handlesC)
         /\ view' = render(diagram, JumpProps(target, handlesB, handlesC))
    /\ UNCHANGED <<storeVars, formVars, nodeDrags, firstRun, secondRun, filterArg, filtered,
                   codec, layoutCall, entityNode, processNode, isLabelSelected, toggles, lastKey>>

NextJumps == RenderJumps

SpecJumps == InitJumps /\ [][NextJumps]_vars

----------------------------------------------------------------------------
(* Handler harnesses: the direction toggle and the label keys of one      *)
(* mounted CustomOrthogonalEdge.                                           *)

\* Label offsets an edge starts with: none, the two ends of the range and
\* a value off the 0.05 grid.
StartLabelOffsets == { DUndefined, MinLabelOffset, MaxLabelOffset, DDec(12, 2) }

HandlerDiagram(level, dir, labelOffset) ==
    Diagram(level, <<>>,
            << WithLabelOffset(WithDirection(DFDEdge("df-a", TxtName, "e-a", "p-0.0", level),
                                             dir), labelOffset) >>)

\* What a toggle leaves in the history: the stored and the drawn direction.
Toggled(v) ==
    [stored |-> v.storedDirection, smart |-> v.useSmartRouting,
     effective |-> v.currentDirection]

\* The component mounted for the edge of the diagram.
Mounted(sourcePosition) ==
    /\ edgeProps = EdgeProps("df-a", sourcePosition, Point(100, 50),
                             [found |-> FALSE, p1 |-> Point(0, 0), p2 |-> Point(0, 0)])
    /\ view = render(diagram, edgeProps)
    /\ isLabelSelected = FALSE
    /\ toggles = << Toggled(view) >>
    /\ lastKey = [key |-> UndefinedId]

InitToggle ==
    /\ \E level \in DFDLevel, dir \in EdgeDirections :
         diagram = HandlerDiagram(level, dir, DUndefined)
    /\ validationResults = <<>>
    /\ lastRemoved = NoRemoval
    /\ nodeDrags = 0
    /\ FormsIdle
    /\ firstRun = NotRun
    /\ secondRun = NotRun
    /\ filterArg = <<>>
    /\ filtered = NotRun
    /\ codec = NoCodec
    /\ layoutCall = NoLayout
    /\ entityNode = NotMounted
    /\ processNode = NotMounted
    /\ \E sourcePosition \in {"right", "bottom"} : Mounted(sourcePosition)

InitLabel ==
    /\ \E level \in {0, 2}, labelOffset \in StartLabelOffsets :
         diagram = HandlerDiagram(level, UndefinedId, labelOffset)
    /\ validationResults = <<>>
    /\ lastRemoved = NoRemoval
    /\ nodeDrags = 0
    /\ FormsIdle
    /\ firstRun = NotRun
    /\ secondRun = NotRun
    /\ filterArg = <<>>
    /\ filtered = NotRun
    /\ codec = NoCodec
    /\ layoutCall = NoLayout
    /\ entityNode = NotMounted
    /\ processNode = NotMounted
    /\ Mounted("right")

\* The new direction of a level-2 edge.
nextLevel2Direction(storedDirection) ==
    IF storedDirection = UndefinedId \/ storedDirection = "smart" THEN "horizontal-first"
    ELSE IF storedDirection = "horizontal-first" THEN "vertical-first"
    ELSE "smart"

\* The new direction without the smart step.
nextDirectionManualOnly(v) ==
    IF v.currentDirection = "horizontal-first" THEN "vertical-first" ELSE "horizontal-first"

\* newDirection of handleToggleDirection
nextDirection(v) ==
    IF v.isLevel2 THEN nextLevel2Direction(v.storedDirection)
    ELSE IF v.currentDirection = "horizontal-first" THEN "vertical-first"
    ELSE "horizontal-first"

handleToggleDirection ==
    /\ view.mounted
    /\ Len(toggles) <= MaxToggles
    /\ Commit(updateEdge(diagram, edgeProps.id, [arrowDirection |-> nextDirection(view)]),
              NoRemoval)
    /\ view' = render(diagram', edgeProps)
    /\ toggles' = Append(toggles, Toggled(view'))
    /\ UNCHANGED <<formVars, nodeDrags, firstRun, secondRun, filterArg, filtered, codec,
                   layoutCall, entityNode, processNode,
                   edgeProps, isLabelSelected, lastKey>>

handleLabelClick ==
    /\ view.mounted
    /\ isLabelSelected' = TRUE
    /\ UNCHANGED <<storeVars, formVars, nodeDrags, firstRun, secondRun, filterArg, filtered,
                   codec, layoutCall, entityNode,
                   processNode,
                   edgeProps, view, toggles, lastKey>>

\* newOffset of a key press that adds to the offset without a limit.
newOffsetUnclamped(key, labelOffset) ==
    IF key = "ArrowLeft" THEN DSub(labelOffset, LabelStep) ELSE DAdd(labelOffset, LabelStep)

\* newOffset of handleKeyDown
newOffset(key, labelOffset) ==
    IF key = "ArrowLeft" THEN DMax(MinLabelOffset, DSub(labelOffset, LabelStep))
    ELSE DMin(MaxLabelOffset, DAdd(labelOffset, LabelStep))

handleKeyDown(key) ==
    /\ view.mounted
    /\ isLabelSelected
    /\ IF key = "Escape"
       THEN /\ isLabelSelected' = FALSE
            /\ UNCHANGED <<storeVars, view, lastKey>>
       ELSE /\ Commit(updateEdge(diagram, edgeProps.id,
                                 [labelOffset |-> newOffset(key, view.labelOffset)]),
                      NoRemoval)
            /\ view' = render(diagram', edgeProps)
            /\ lastKey' = [key |-> key, before |-> view.labelOffset]
            /\ UNCHANGED isLabelSelected
    /\ UNCHANGED <<formVars, nodeDrags, firstRun, secondRun, filterArg, filtered, codec,
                   layoutCall, entityNode, processNode,
                   edgeProps, toggles>>

handleClickOutside ==
    /\ view.mounted
    /\ isLabelSelected
    /\ isLabelSelected' = FALSE
    /\ UNCHANGED <<storeVars, formVars, nodeDrags, firstRun, secondRun, filterArg, filtered,
                   codec, layoutCall, entityNode,
                   processNode,
                   edgeProps, view, toggles, lastKey>>

NextToggle == handleToggleDirection

SpecToggle == InitToggle /\ [][NextToggle]_vars

NextLabel ==
    \/ handleLabelClick
    \/ \E key \in {"ArrowLeft", "ArrowRight", "Escape"} : handleKeyDown(key)
    \/ handleClickOutside

SpecLabel == InitLabel /\ [][NextLabel]_vars

----------------------------------------------------------------------------
(* components/diagram/level0: ProcessNode.  The render computes, from the  *)
(* flows at the node and its diameter, whether the circle is too small for *)
(* its handles; the angles of the handles do not enter that computation    *)
(* and are not kept.                                                       *)

\* Math.PI
MathPI == DRound(FALSE, <<11544, 10376, 2029, 201>>, -51, FALSE)

\* Math.round(x): the nearest integer, a half going up.
MathRound(x) ==
    IF ~IsFinite(x) \/ x.e >= 0 THEN x
    ELSE LET whole == BnShr(x.m, -x.e).q
             half == BnBit(x.m, -x.e) = 1
             below == BnShr(x.m, -x.e - 1).lost
             away == IF x.neg THEN half /\ below ELSE half
         IN  DRound(x.neg, IF away THEN BnAdd(whole, <<1>>) ELSE whole, 0, FALSE)

QUADRANT_ORDER == <<"top", "right", "bottom", "left">>

QUADRANT_START_ANGLES == [top |-> 270, right |-> 0, bottom |-> 90, left |-> 180]

\* inFlowRange and outFlowRange: the halves of the section.
layoutRanges(quadrant, sectionStart, sectionEnd, half) ==
    LET lower == [start |-> sectionStart, end |-> DAdd(sectionStart, half)]
        upper == [start |-> DAdd(sectionStart, half), end |-> sectionEnd]
    IN  [quadrant |-> quadrant,
         processSection |-> [start |-> sectionStart, end |-> sectionEnd],
         inFlowRange |-> IF quadrant \in {"top", "left"} THEN upper ELSE lower,
         outFlowRange |-> IF quadrant \in {"top", "left"} THEN lower ELSE upper]

\* sectionStart and sectionEnd of the k-th entity of a quadrant that starts
\* at S_q and is cut into sections of sectionSize.
layoutSections(quadrant, k, S_q, sectionSize) ==
    IF quadrant \in {"top", "bottom"}
    THEN layoutRanges(quadrant,
                      DSub(DAdd(S_q, DInt(90)), DMul(DInt(k + 1), sectionSize)),
                      DSub(DAdd(S_q, DInt(90)), DMul(DInt(k), sectionSize)),
                      DDiv(sectionSize, DInt(2)))
    ELSE layoutRanges(quadrant,
                      DAdd(S_q, DMul(DInt(k), sectionSize)),
                      DAdd(S_q, DMul(DInt(k + 1), sectionSize)),
                      DDiv(sectionSize, DInt(2)))

\* The same with every quadrant taken to hold as many entities as the first.
getEntityLayoutInfoEvenly(entityIndex, totalEntities) ==
    LET quadrant == QUADRANT_ORDER[(entityIndex % 4) + 1]
    IN  layoutSections(quadrant, entityIndex \div 4,
                       DInt(QUADRANT_START_ANGLES[quadrant]),
                       DDiv(DInt(90), DInt((totalEntities + 3) \div 4)))

getEntityLayoutInfo(entityIndex, totalEntities) ==
    LET quadrant == QUADRANT_ORDER[(entityIndex % 4) + 1]
        m == Cardinality({ i \in 0..(totalEntities - 1) :
                             QUADRANT_ORDER[(i % 4) + 1] = quadrant })
    IN  layoutSections(quadrant, entityIndex \div 4,
                       DInt(QUADRANT_START_ANGLES[quadrant]), DDiv(DInt(90), DInt(m)))

\* The layouts of the entities of a diagram with total of them, by index
\* from 1, computed once.
EntityLayouts ==
    [total \in 1..MaxEntities |->
        [index \in 1..total |-> getEntityLayoutInfo(index - 1, total)]]

\* Layout harness: one call of getEntityLayoutInfo with its arguments drawn
\* from bounded sets.
MaxLayoutEntities == 28

InitLayout ==
    /\ diagram = INITIAL_DIAGRAM
    /\ validationResults = <<>>
    /\ lastRemoved = NoRemoval
    /\ nodeDrags = 0
    /\ FormsIdle
    /\ firstRun = NotRun
    /\ secondRun = NotRun
    /\ filterArg = <<>>
    /\ filtered = NotRun
    /\ codec = NoCodec
    /\ \E totalEntities \in 1..MaxLayoutEntities :
         \E entityIndex \in 0..(totalEntities - 1) :
         layoutCall = [called |-> FALSE, entityIndex |-> entityIndex,
                       totalEntities |-> totalEntities]
    /\ entityNode = NotMounted
    /\ processNode = NotMounted
    /\ edgeProps = NoProps
    /\ view = NotMounted
    /\ isLabelSelected = FALSE
    /\ toggles = <<>>
    /\ lastKey = [key |-> UndefinedId]

\* const layout = getEntityLayoutInfo(entityIndex, totalEntities)
CallGetEntityLayoutInfo ==
    /\ ~layoutCall.called
    /\ layoutCall' = [called |-> TRUE, entityIndex |-> layoutCall.entityIndex,
                      totalEntities |-> layoutCall.totalEntities,
                      result |-> getEntityLayoutInfo(layoutCall.entityIndex,
                                                     layoutCall.totalEntities)]
    /\ UNCHANGED <<storeVars, formVars, nodeDrags, firstRun, secondRun, filterArg, filtered,
                   codec, entityNode, edgeProps, view, isLabelSelected, toggles, lastKey,
                   processNode>>

NextLayout == CallGetEntityLayoutInfo

SpecLayout == InitLayout /\ [][NextLayout]_vars

\* const minGapPx = 25
minGapPx == DInt(25)

\* (180 / Math.PI)
DegreesPerRadian == DDiv(DInt(180), MathPI)

\* (Math.PI / 180)
RadiansPerDegree == DDiv(MathPI, DInt(180))

\* const diameter = data.diameter || 200
diameterOf(data) ==
    IF "diameter" \in DOMAIN data /\ IsFinite(data.diameter) /\ ~IsZero(data.diameter)
    THEN data.diameter
    ELSE DInt(200)

\* The handles of one entity: its in-flows and then its out-flows, each
\* with the range of angles of its section.
handlesOfEntity(layout, incoming, outgoing) ==
    [i \in 1..Len(incoming) |->
        [id |-> incoming[i].id, type |-> "target",
         sectionStart |-> layout.inFlowRange.start,
         sectionEnd |-> layout.inFlowRange.end]]
    \o [i \in 1..Len(outgoing) |->
          [id |-> outgoing[i].id, type |-> "source",
           sectionStart |-> layout.outFlowRange.start,
           sectionEnd |-> layout.outFlowRange.end]]

\* rawHandles of the entities up to index, in the order of the nodes.
RECURSIVE rawHandlesUpTo(_, _, _, _)
rawHandlesUpTo(d, id, entityNodes, index) ==
    IF index = 0 THEN <<>>
    ELSE rawHandlesUpTo(d, id, entityNodes, index - 1)
           \o handlesOfEntity(
                  EntityLayouts[Len(entityNodes)][index],
                  SelectSeq(d.edges, LAMBDA e : e.targetNodeId = id
                                               /\ e.sourceNodeId = entityNodes[index].id),
                  SelectSeq(d.edges, LAMBDA e : e.sourceNodeId = id
                                               /\ e.targetNodeId = entityNodes[index].id))

\* rawHandles
rawHandlesOf(d, id) ==
    LET entityNodes == SelectSeq(d.nodes, LAMBDA n : n.type = "entity" /\ n.level = 0)
    IN  rawHandlesUpTo(d, id, entityNodes, Len(entityNodes))

\* minGapDeg
minGapDeg(diameter) ==
    DMul(DDiv(minGapPx, DDiv(diameter, DInt(2))), DegreesPerRadian)

\* availableSpanDeg
availableSpanDeg(start, end) == DAbs(DSub(end, start))

\* The same without the margin of 5 px a handle.
neededDiameterWithoutMargin(count, start, end, diameter) ==
    [over |-> DLess(availableSpanDeg(start, end), DMul(DInt(count), minGapDeg(diameter))),
     neededD |-> DMul(DDiv(DMul(DInt(count), minGapPx),
                           DMul(availableSpanDeg(start, end), RadiansPerDegree)),
                      DInt(2))]

\* The diameter a section of count handles between start and end asks for:
\* neededD, when the handles need a wider span than the section has.
neededDiameter(count, start, end, diameter) ==
    [over |-> DLess(availableSpanDeg(start, end), DMul(DInt(count), minGapDeg(diameter))),
     neededD |-> DMul(DDiv(DMul(DInt(count), DAdd(minGapPx, DInt(5))),
                           DMul(availableSpanDeg(start, end), RadiansPerDegree)),
                      DInt(2))]

\* What the render returns for the diameters asked for that are larger
\* than the diameter.  requiredDiameter is a running maximum, which does
\* not depend on the order of the sections.
renderedWith(diameter, rawHandles, larger) ==
    [diameter |-> diameter,
     resizeNeeded |-> larger # {},
     requiredDiameter |-> IF larger = {} THEN diameter
                          ELSE CHOOSE x \in larger : \A y \in larger : DLeq(y, x),
     handles |-> [i \in 1..Len(rawHandles) |->
                    [id |-> rawHandles[i].id, type |-> rawHandles[i].type]]]

\* The capacity check of the sections with two handles or more.
renderOf(diameter, rawHandles) ==
    LET keyOf(handle) == <<handle.sectionStart, handle.sectionEnd>>
        keys == { keyOf(rawHandles[i]) : i \in 1..Len(rawHandles) }
        countOf(key) == Cardinality({ i \in 1..Len(rawHandles) : keyOf(rawHandles[i]) = key })
    IN  renderedWith(diameter, rawHandles,
            { a.neededD :
                a \in { b \in { neededDiameter(countOf(key), key[1], key[2], diameter) :
                                   key \in { k \in keys : countOf(k) >= 2 } } :
                           b.over /\ DLess(diameter, b.neededD) } })

\* The render of ProcessNode: diameter, resizeNeeded, requiredDiameter and
\* the handles.
renderProcessNode(d, id) ==
    renderOf(diameterOf(d.nodes[CHOOSE i \in 1..Len(d.nodes) : d.nodes[i].id = id]),
             rawHandlesOf(d, id))

\* useState<string | null>(null)
NoHandle == "<null>"

NoTimer == [pending |-> FALSE]

NothingFired == [fired |-> FALSE]

\* The test of the auto-resize effect without the test of the drag.
scheduleResizeWhileDragging(draggingHandleId, rendered) ==
    rendered.resizeNeeded /\ DLess(rendered.diameter, rendered.requiredDiameter)

\* Whether the auto-resize effect sets its timer.
scheduleResize(draggingHandleId, rendered) ==
    /\ draggingHandleId = NoHandle
    /\ rendered.resizeNeeded
    /\ DLess(rendered.diameter, rendered.requiredDiameter)

\* The dependencies of the auto-resize effect that can change; updateNode
\* and data.id do not.
resizeDeps(draggingHandleId, rendered) ==
    [resizeNeeded |-> rendered.resizeNeeded,
     requiredDiameter |-> rendered.requiredDiameter,
     diameter |-> rendered.diameter,
     draggingHandleId |-> draggingHandleId]

\* The timer after a render: when a dependency changed, the cleanup of the
\* last run clears its timer and the effect runs again; otherwise the timer
\* is the one left by the last run, or by its firing.
resizeEffect(lastDeps, timer, draggingHandleId, rendered, dragsStarted) ==
    IF resizeDeps(draggingHandleId, rendered) = lastDeps THEN timer
    ELSE IF scheduleResize(draggingHandleId, rendered)
         THEN [pending |-> TRUE,
               requiredDiameter |-> rendered.requiredDiameter,
               dragging |-> draggingHandleId # NoHandle,
               drags |-> dragsStarted]
         ELSE NoTimer

\* The component after a render that computed rendered with the state
\* given, and after the passive effects of that render.  cleared records
\* that the cleanup of the effect cleared a timer that was pending.
Rendered(rendered, last, selected, draggingHandleId, timer, dragsStarted, lastFired) ==
    [mounted |-> TRUE, id |-> last.id, selected |-> selected,
     draggingHandleId |-> draggingHandleId,
     rendered |-> rendered,
     deps |-> resizeDeps(draggingHandleId, rendered),
     timer |-> resizeEffect(last.deps, timer, draggingHandleId, rendered, dragsStarted),
     cleared |-> timer.pending /\ resizeDeps(draggingHandleId, rendered) # last.deps,
     dragsStarted |-> dragsStarted,
     lastFired |-> lastFired]

----------------------------------------------------------------------------
(* Node harness: the process of a context diagram with one or two          *)
(* entities, flows being added, its handles dragged and its circle resized.*)

ResizeFlowIds == <<"df-a", "df-b", "df-c", "df-d", "df-e">>

\* Diameters stored at the start, and those NodeResizer reports.
StartDiameters == {DUndefined, DInt(120)}

ResizeParams == {[width |-> DInt(120), height |-> DInt(100)]}

\* The angle the mouse moves a handle by.
DragDelta == DInt(10)

ResizeEntityIds == <<"e-a", "e-b", "e-c">>

ResizeFlow(i, entityId, incoming) ==
    IF incoming THEN DFDEdge(ResizeFlowIds[i], TxtName, entityId, "p-0.0", 0)
    ELSE DFDEdge(ResizeFlowIds[i], TxtName, "p-0.0", entityId, 0)

\* The flows a form adds: into the process from the first entity.
ResizeFlowInputs == { [entityId |-> "e-a", incoming |-> TRUE] }

ResizeDiagram(diameter, entities, flows) ==
    LET process == Node("p-0.0", "process", TxtSystem, 0, Txt00, Undefined)
    IN  Diagram(0,
                << IF diameter = DUndefined THEN process
                   ELSE Spread(process, [diameter |-> diameter]) >>
                  \o [i \in 1..entities |->
                        Node(ResizeEntityIds[i], "entity", TxtName, 0, Undefined, Undefined)],
                [i \in 1..flows |-> ResizeFlow(i, "e-a", TRUE)])

\* The component before its first render.
Unrendered(id) == [id |-> id, deps |-> [draggingHandleId |-> NoHandle]]

InitResize ==
    /\ \E diameter \in StartDiameters, flows \in 1..2 :
         diagram = ResizeDiagram(diameter, MaxEntities, flows)
    /\ validationResults = <<>>
    /\ lastRemoved = NoRemoval
    /\ nodeDrags = 0
    /\ FormsIdle
    /\ firstRun = NotRun
    /\ secondRun = NotRun
    /\ filterArg = <<>>
    /\ filtered = NotRun
    /\ codec = NoCodec
    /\ layoutCall = NoLayout
    /\ entityNode = NotMounted
    /\ edgeProps = NoProps
    /\ view = NotMounted
    /\ isLabelSelected = FALSE
    /\ toggles = <<>>
    /\ lastKey = [key |-> UndefinedId]
    /\ \E selected \in BOOLEAN, rendered \in { renderProcessNode(diagram, "p-0.0") } :
         processNode = Rendered(rendered, Unrendered("p-0.0"), selected, NoHandle, NoTimer, 0,
                                NothingFired)

nodeFrame == <<formVars, nodeDrags, firstRun, secondRun, filterArg, filtered, codec,
               layoutCall, entityNode, edgeProps, view,
               isLabelSelected, toggles, lastKey>>

\* onHandleMouseDown: if (!selected) return; setDraggingHandleId(handleId).
\* The store did not change, so the render computes what the last one did.
onHandleMouseDown(handleId) ==
    /\ processNode.mounted
    /\ processNode.selected
    /\ processNode.dragsStarted < MaxDrags
    /\ \E i \in 1..Len(processNode.rendered.handles) :
         processNode.rendered.handles[i].id = handleId
    /\ processNode' = Rendered(processNode.rendered, processNode, processNode.selected,
                               handleId,
                               processNode.timer, processNode.dragsStarted + 1,
                               processNode.lastFired)
    /\ UNCHANGED <<storeVars, nodeFrame>>

\* The offset the edge stores for its handle at the process: x || 0.
angleOffsetOf(edge, type) ==
    LET field == IF type = "source" THEN "sourceAngleOffset" ELSE "targetAngleOffset"
    IN  IF field \in DOMAIN edge /\ IsFinite(edge[field]) THEN edge[field] ELSE DZero

\* handleMouseMove of the drag effect: the offset of the dragged handle
\* moves by the angle between the mouse and the handle.
handleMouseMove ==
    /\ processNode.mounted
    /\ processNode.draggingHandleId # NoHandle
    /\ LET found == findEdge(diagram, processNode.draggingHandleId)
           handles == SelectSeq(processNode.rendered.handles,
                                LAMBDA h : h.id = processNode.draggingHandleId)
       IN  /\ found # <<>>
           /\ handles # <<>>
           /\ IsZero(angleOffsetOf(found[1], handles[1].type))  \* one move a handle
           /\ LET moved == DAdd(angleOffsetOf(found[1], handles[1].type), DragDelta)
              IN  Commit(updateEdge(diagram, processNode.draggingHandleId,
                                    IF handles[1].type = "source"
                                    THEN [sourceAngleOffset |-> moved]
                                    ELSE [targetAngleOffset |-> moved]),
                         NoRemoval)
    /\ \E rendered \in { renderProcessNode(diagram', processNode.id) } :
         processNode' = Rendered(rendered, processNode, processNode.selected,
                                 processNode.draggingHandleId, processNode.timer,
                                 processNode.dragsStarted, processNode.lastFired)
    /\ UNCHANGED nodeFrame

\* handleMouseUp of the drag effect: setDraggingHandleId(null)
handleMouseUp ==
    /\ processNode.mounted
    /\ processNode.draggingHandleId # NoHandle
    /\ processNode' = Rendered(processNode.rendered, processNode, processNode.selected,
                               NoHandle,
                               processNode.timer, processNode.dragsStarted,
                               processNode.lastFired)
    /\ UNCHANGED <<storeVars, nodeFrame>>

\* The timer of the auto-resize effect fires:
\* updateNode(data.id, { diameter: Math.round(requiredDiameter) })
ResizeTimerFires ==
    /\ processNode.mounted
    /\ processNode.timer.pending
    /\ Commit(updateNode(diagram, processNode.id,
                         [diameter |-> MathRound(processNode.timer.requiredDiameter)]),
              NoRemoval)
    /\ \E rendered \in { renderProcessNode(diagram', processNode.id) } :
         processNode' = Rendered(rendered, processNode, processNode.selected,
                                 processNode.draggingHandleId, NoTimer,
                                 processNode.dragsStarted,
                                 [fired |-> TRUE,
                                  dragging |-> processNode.draggingHandleId # NoHandle,
                                  setDuringDrag |-> processNode.timer.dragging,
                                  stale |-> processNode.dragsStarted
                                              # processNode.timer.drags])
    /\ UNCHANGED nodeFrame

\* onResize of NodeResizer, shown while the node is selected:
\* updateNode(data.id, { diameter: Math.round(Math.max(width, height)) })
onResize(params) ==
    /\ processNode.mounted
    /\ processNode.selected
    /\ Commit(updateNode(diagram, processNode.id,
                         [diameter |-> MathRound(DMax(params.width, params.height))]),
              NoRemoval)
    /\ \E rendered \in { renderProcessNode(diagram', processNode.id) } :
         processNode' = Rendered(rendered, processNode, processNode.selected,
                                 processNode.draggingHandleId, processNode.timer,
                                 processNode.dragsStarted, processNode.lastFired)
    /\ UNCHANGED nodeFrame

\* A form adds a flow between an entity and the process: addEdge(edge)
AddFlow(entityId, incoming) ==
    /\ processNode.mounted
    /\ Len(diagram.edges) < MaxFlows
    /\ \E i \in 1..Len(diagram.nodes) : diagram.nodes[i].id = entityId
    /\ Commit(addEdge(diagram, ResizeFlow(Len(diagram.edges) + 1, entityId, incoming)),
              NoRemoval)
    /\ \E rendered \in { renderProcessNode(diagram', processNode.id) } :
         processNode' = Rendered(rendered, processNode, processNode.selected,
                                 processNode.draggingHandleId, processNode.timer,
                                 processNode.dragsStarted, processNode.lastFired)
    /\ UNCHANGED nodeFrame

NextResize ==
    \/ \E handleId \in { ResizeFlowIds[i] : i \in 1..Len(ResizeFlowIds) } :
         onHandleMouseDown(handleId)
    \/ handleMouseMove
    \/ handleMouseUp
    \/ ResizeTimerFires
    \/ \E params \in ResizeParams : onResize(params)
    \/ \E flow \in ResizeFlowInputs : AddFlow(flow.entityId, flow.incoming)

SpecResize == InitResize /\ [][NextResize]_vars

\* A timer that is set and not cleared fires: weak fairness of the firing,
\* which is enabled exactly when a timer is pending.
TimerFiresFairly ==
    \/ []<>(~(processNode.mounted /\ processNode.timer.pending))
    \/ []<><<ResizeTimerFires>>_vars

SpecResizeFair == SpecResize /\ TimerFiresFairly

----------------------------------------------------------------------------
(* components/diagram/level0/Level0Edge: ProcessNode, the angles of its    *)
(* handles and the drag of a handle round the circle.  What                *)
(* getAngleFromMouse returns for a mouse event is an input, an angle from  *)
(* 0 up to 360 degrees.                                                    *)

\* distributeAngles(start, end, count)[idx]
distributeAngles(start, end, count, idx) ==
    DAdd(start, DMul(DDiv(DSub(end, start), DInt(count + 1)), DInt(idx + 1)))

ProcessHandle(id, angle, type, sectionStart, sectionEnd) ==
    [id |-> id, angle |-> angle, type |-> type,
     sectionStart |-> sectionStart, sectionEnd |-> sectionEnd]

\* Whether two raw handles come from the same list of flows: the in-flows
\* or the out-flows of one entity.
sameFlowList(a, b) ==
    a.type = b.type /\ a.sectionStart = b.sectionStart /\ a.sectionEnd = b.sectionEnd

\* rawHandles with the angle of each: angles[idx] + (offset || 0), where idx
\* counts the handle within its list of flows.
angledHandles(d, rawHandles) ==
    [i \in 1..Len(rawHandles) |->
        ProcessHandle(
            rawHandles[i].id,
            DAdd(distributeAngles(
                     rawHandles[i].sectionStart, rawHandles[i].sectionEnd,
                     Cardinality({ j \in 1..Len(rawHandles) :
                                     sameFlowList(rawHandles[j], rawHandles[i]) }),
                     Cardinality({ j \in 1..(i - 1) :
                                     sameFlowList(rawHandles[j], rawHandles[i]) })),
                 angleOffsetOf(findEdge(d, rawHandles[i].id)[1], rawHandles[i].type)),
            rawHandles[i].type, rawHandles[i].sectionStart, rawHandles[i].sectionEnd)]

\* A handle put in its place among handles sorted by angle.
insertByAngle(sorted, handle) ==
    SelectSeq(sorted, LAMBDA h : ~DLess(handle.angle, h.angle))
        \o <<handle>>
        \o SelectSeq(sorted, LAMBDA h : DLess(handle.angle, h.angle))

\* handles.sort((a, b) => a.angle - b.angle)
RECURSIVE sortByAngle(_)
sortByAngle(handles) ==
    IF handles = <<>> THEN <<>>
    ELSE insertByAngle(sortByAngle(SubSeq(handles, 1, Len(handles) - 1)),
                       handles[Len(handles)])

\* h1.angle = center - shift and h2.angle = center + shift
shiftedApart(handles, i, center, shift) ==
    [handles EXCEPT ![i].angle = DSub(center, shift), ![i + 1].angle = DAdd(center, shift)]

\* The for loop of one iteration over localHandles, from the pair at i on.
RECURSIVE relaxHandlePairs(_, _, _, _)
relaxHandlePairs(handles, i, changed, minGap) ==
    IF i >= Len(handles) THEN [handles |-> handles, changed |-> changed]
    ELSE IF DLess(DAbs(DSub(handles[i + 1].angle, handles[i].angle)), minGap)
         THEN relaxHandlePairs(
                  shiftedApart(handles, i,
                               DDiv(DAdd(handles[i].angle, handles[i + 1].angle), DInt(2)),
                               DDiv(minGap, DInt(2))),
                  i + 1, TRUE, minGap)
         ELSE relaxHandlePairs(handles, i + 1, changed, minGap)

\* while (changed && iter < 10), entered with iter done and changed true;
\* afterHandlePass is the end of one iteration, with the sort.
RECURSIVE relaxHandles(_, _, _)
RECURSIVE afterHandlePass(_, _, _)
afterHandlePass(pass, iter, minGap) ==
    IF pass.changed
    THEN relaxHandles(sortByAngle(pass.handles), iter, minGap)
    ELSE sortByAngle(pass.handles)

relaxHandles(handles, iter, minGap) ==
    IF iter >= 10 THEN handles
    ELSE afterHandlePass(relaxHandlePairs(handles, 1, FALSE, minGap), iter + 1, minGap)

\* What one section adds to distributedHandles.
resolveSection(handlesInSection, minGap) ==
    IF Len(handlesInSection) < 2 THEN handlesInSection
    ELSE relaxHandles(sortByAngle(handlesInSection), 0, minGap)

\* Whether the handle at i is the first of its section: sections keeps the
\* keys `${h.sectionStart}-${h.sectionEnd}` in the order they first appear.
opensSection(handles, i) ==
    \A j \in 1..(i - 1) : ~(/\ handles[j].sectionStart = handles[i].sectionStart
                            /\ handles[j].sectionEnd = handles[i].sectionEnd)

\* distributedHandles of the sections whose first handle is at i or later.
RECURSIVE resolveSectionsFrom(_, _, _)
resolveSectionsFrom(handles, i, minGap) ==
    IF i > Len(handles) THEN <<>>
    ELSE IF opensSection(handles, i)
    THEN resolveSection(
             SelectSeq(handles, LAMBDA h : /\ h.sectionStart = handles[i].sectionStart
                                           /\ h.sectionEnd = handles[i].sectionEnd),
             minGap)
           \o resolveSectionsFrom(handles, i + 1, minGap)
    ELSE resolveSectionsFrom(handles, i + 1, minGap)

\* distributedHandles of one render.
distributedHandlesOfProcess(d, id) ==
    resolveSectionsFrom(
        angledHandles(d, rawHandlesOf(d, id)), 1,
        minGapDeg(diameterOf(d.nodes[CHOOSE i \in 1..Len(d.nodes) : d.nodes[i].id = id])))

\* if (delta > 180) delta -= 360
wrapDown(delta) == IF DLess(DInt(180), delta) THEN DSub(delta, DInt(360)) ELSE delta

\* if (delta < -180) delta += 360
wrapUp(delta) == IF DLess(delta, DNeg(DInt(180))) THEN DAdd(delta, DInt(360)) ELSE delta

\* delta of handleMouseMove
dragDelta(mouseAngle, angle) == wrapUp(wrapDown(DSub(mouseAngle, angle)))

(* The harness of the drag: a context diagram with the process, one entity *)
(* and one or two flows from the entity into the process, none with a      *)
(* stored offset.  The user presses the handle of the first flow, moves the *)
(* mouse and lets go.                                                      *)

MaxMoves == 3

\* What getAngleFromMouse returns for the mouse events of the harness: the
\* mouse straight above the centre, to its right and below it to the left.
MouseAngles == { DInt(0), DInt(90), DInt(225) }

NoMove == [made |-> FALSE]

DragDiagramOf(flows) ==
    Diagram(0,
            << Node("p-0.0", "process", TxtSystem, 0, Txt00, Undefined),
               Node("e-a", "entity", TxtName, 0, Undefined, Undefined) >>,
            [i \in 1..flows |-> ResizeFlow(i, "e-a", TRUE)])

\* The component after a render.
Dragging(id, selected, draggingHandleId, handles, moves, lastMove) ==
    [mounted |-> TRUE, id |-> id, selected |-> selected,
     draggingHandleId |-> draggingHandleId, handles |-> handles,
     moves |-> moves, lastMove |-> lastMove]

InitHandleDrag ==
    /\ \E flows \in 1..2 : diagram = DragDiagramOf(flows)
    /\ validationResults = <<>>
    /\ lastRemoved = NoRemoval
    /\ nodeDrags = 0
    /\ FormsIdle
    /\ firstRun = NotRun
    /\ secondRun = NotRun
    /\ filterArg = <<>>
    /\ filtered = NotRun
    /\ codec = NoCodec
    /\ layoutCall = NoLayout
    /\ entityNode = NotMounted
    /\ edgeProps = NoProps
    /\ view = NotMounted
    /\ isLabelSelected = FALSE
    /\ toggles = <<>>
    /\ lastKey = [key |-> UndefinedId]
    /\ \E selected \in BOOLEAN, handles \in { distributedHandlesOfProcess(diagram, "p-0.0") } :
         processNode = Dragging("p-0.0", selected, NoHandle, handles, 0, NoMove)

\* onHandleMouseDown: if (!selected) return; setDraggingHandleId(handleId)
HandleMouseDown(handleId) ==
    /\ processNode.selected
    /\ \E i \in 1..Len(processNode.handles) : processNode.handles[i].id = handleId
    /\ processNode' = [processNode EXCEPT !.draggingHandleId = handleId]
    /\ UNCHANGED <<storeVars, nodeFrame>>

\* What handleMouseMove computes for a handle and its edge.
moveOf(handle, edge, mouseAngle) ==
    [made |-> TRUE, id |-> handle.id, type |-> handle.type,
     currentOffset |-> angleOffsetOf(edge, handle.type),
     angle |-> handle.angle,
     mouseAngle |-> mouseAngle,
     delta |-> dragDelta(mouseAngle, handle.angle),
     newOffset |-> DAdd(angleOffsetOf(edge, handle.type),
                        dragDelta(mouseAngle, handle.angle))]

\* handleMouseMove of the drag effect, with the updateEdge of the store and
\* the render that follows it.
HandleMouseMove(mouseAngle) ==
    /\ processNode.draggingHandleId # NoHandle
    /\ processNode.moves < MaxMoves
    /\ findEdge(diagram, processNode.draggingHandleId) # <<>>
    /\ \E i \in 1..Len(processNode.handles) :
         /\ processNode.handles[i].id = processNode.draggingHandleId
         /\ \E move \in { moveOf(processNode.handles[i],
                                 findEdge(diagram, processNode.draggingHandleId)[1],
                                 mouseAngle) } :
              /\ Commit(updateEdge(diagram, move.id,
                                   IF move.type = "source"
                                   THEN [sourceAngleOffset |-> move.newOffset]
                                   ELSE [targetAngleOffset |-> move.newOffset]),
                        NoRemoval)
              /\ \E handles \in { distributedHandlesOfProcess(diagram', processNode.id) } :
                   processNode' = Dragging(processNode.id, processNode.selected,
                                           processNode.draggingHandleId, handles,
                                           processNode.moves + 1, move)
    /\ UNCHANGED nodeFrame

\* handleMouseUp: setDraggingHandleId(null)
HandleMouseUp ==
    /\ processNode.draggingHandleId # NoHandle
    /\ processNode' = [processNode EXCEPT !.draggingHandleId = NoHandle]
    /\ UNCHANGED <<storeVars, nodeFrame>>

NextHandleDrag ==
    \/ HandleMouseDown("df-a")
    \/ \E mouseAngle \in MouseAngles : HandleMouseMove(mouseAngle)
    \/ HandleMouseUp

SpecHandleDrag == InitHandleDrag /\ [][NextHandleDrag]_vars

----------------------------------------------------------------------------
(* Rules harness: validateDiagram and filterValidationForUI applied to a   *)
(* diagram snapshot drawn from a bounded set.                              *)

RuleNodeInputs ==
    { Node("p-0.0", "process", TxtSystem, 0, Txt00, Undefined),
      Node("proc-a", "process", TxtNewProcess, 1, Txt10, Undefined),
      Node("sp_a", "process", TxtSpace, 2, TxtEmpty, Undefined),
      Node("e-a", "entity", TxtName, 0, Undefined, Undefined),
      Node("ds1-a", "datastore", TxtName, 1, Undefined, TxtD1),
      Node("ds2-a", "datastore", TxtName, 2, Undefined, TxtEmpty),
      Node("ext_a", "process_ref", TxtName, 2, Undefined, Undefined) }

RuleEdgeInputs ==
    { DFDEdge("df-a", TxtName, "e-a", "p-0.0", 0),
      DFDEdge("flow-a", TxtName, "e-a", "e-a", 1),
      DFDEdge("flow-b", TxtSpace, "ds1-a", "e-a", 1),
      DFDEdge("int-a-in", TxtName, "ds1-a", "ds1-a", 1),
      DFDEdge("flow-c", TxtName, "proc-a", "proc-a", 1),
      DFDEdge("df-a", TxtName, "e-a", "e-gone", 0) }

RuleDiagrams ==
    { Diagram(l, ns, es) :
        l \in DFDLevel,
        ns \in SeqsUpTo(RuleNodeInputs, MaxRuleNodes),
        es \in SeqsUpTo(RuleEdgeInputs, MaxRuleEdges) }

InitRules ==
    /\ diagram \in RuleDiagrams
    /\ validationResults = <<>>
    /\ lastRemoved = NoRemoval
    /\ FormsIdle
    /\ HarnessIdle

\* const r = validateDiagram(diagram)
CallValidate ==
    /\ ~firstRun.ran
    /\ \E seed \in Seeds : firstRun' = Returned(validateDiagram(diagram, seed))
    /\ UNCHANGED <<storeVars, formVars, nodeDrags, secondRun, filterArg, filtered, viewVars>>

\* a second validateDiagram(diagram) on the same snapshot
CallValidateAgain ==
    /\ firstRun.ran
    /\ ~secondRun.ran
    /\ ~filtered.ran
    /\ \E seed \in Seeds : secondRun' = Returned(validateDiagram(diagram, seed))
    /\ UNCHANGED <<storeVars, formVars, nodeDrags, firstRun, filterArg, filtered, viewVars>>

\* filterValidationForUI(r, diagram)
CallFilter ==
    /\ firstRun.ran
    /\ ~firstRun.threw
    /\ ~secondRun.ran
    /\ ~filtered.ran
    /\ filterArg' = firstRun.results
    /\ filtered' = [ran |-> TRUE, threw |-> FALSE,
                    results |-> filterValidationForUI(firstRun.results, diagram)]
    /\ UNCHANGED <<storeVars, formVars, nodeDrags, firstRun, secondRun, viewVars>>

NextRules == CallValidate \/ CallValidateAgain \/ CallFilter

SpecRules == InitRules /\ [][NextRules]_vars

----------------------------------------------------------------------------
(* Filter harness: filterValidationForUI applied to a hand-made list.      *)

Finding(ruleCode, severity) ==
    [id |-> <<"u", 1>>, ruleCode |-> ruleCode, severity |-> severity,
     message |-> <<"m">>, nodeId |-> UndefinedId, edgeId |-> UndefinedId]

FindingInputs ==
    { Finding("D-001", "error"), Finding("N-004", "warning"), Finding("N-004", "error"),
      Finding("P-001", "error"), Finding("P-002", "error"), Finding("L0-001", "error"),
      Finding("E-001", "error"), Finding("E-001", "warning"), Finding("E-001", "info") }

FilterDiagrams ==
    LET P0 == Node("p-0.0", "process", TxtSystem, 0, Txt00, Undefined)
        P1 == Node("proc-a", "process", TxtNewProcess, 1, Txt10, Undefined)
        E0 == Node("e-a", "entity", TxtName, 0, Undefined, Undefined)
    IN  { Diagram(l, ns, es) :
            l \in {0, 1},
            ns \in {<<>>, <<P0>>, <<E0, P0>>, <<P0, P1>>},
            es \in {<<>>, <<DFDEdge("df-a", TxtName, "e-a", "p-0.0", 0)>>} }

InitFilter ==
    /\ diagram \in FilterDiagrams
    /\ validationResults = <<>>
    /\ lastRemoved = NoRemoval
    /\ nodeDrags = 0
    /\ FormsIdle
    /\ firstRun = NotRun
    /\ secondRun = NotRun
    /\ filterArg \in SeqsUpTo(FindingInputs, MaxFindings)
    /\ filtered = NotRun
    /\ ViewIdle

\* filterValidationForUI(filterArg, diagram)
ApplyFilter ==
    /\ ~filtered.ran
    /\ filtered' = [ran |-> TRUE, threw |-> FALSE,
                    results |-> filterValidationForUI(filterArg, diagram)]
    /\ UNCHANGED <<storeVars, formVars, nodeDrags, firstRun, secondRun, filterArg, viewVars>>

NextFilter == ApplyFilter

SpecFilter == InitFilter /\ [][NextFilter]_vars

----------------------------------------------------------------------------
(* Properties of the validation engine.                                    *)

CountWhere(s, P(_)) == Cardinality({i \in 1..Len(s) : P(s[i])})

ExactlyOneProcess(d) == CountWhere(d.nodes, LAMBDA n : n.type = "process") = 1

HasFinding(results, code, nodeId) ==
    \E i \in 1..Len(results) : results[i].ruleCode = code /\ results[i].nodeId = nodeId

\* Both ends of the edge are ids of nodes of the diagram.
Resolves(d, e) == nodeMapHas(d.nodes, e.sourceNodeId) /\ nodeMapHas(d.nodes, e.targetNodeId)

\* The types of the two end nodes of an edge that resolves.
EndTypes(d, e) ==
    {nodeMapGet(d.nodes, e.sourceNodeId).type, nodeMapGet(d.nodes, e.targetNodeId).type}

\* The findings of a result list that carry the edge id.
Carrying(results, edgeId) == SelectSeq(results, LAMBDA r : r.edgeId = edgeId)

UniqueEdgeId(d, e) == CountWhere(d.edges, LAMBDA x : x.id = e.id) = 1

\* Whether every element of sub is an element of the list.
AllIn(sub, list) == \A i \in 1..Len(sub) : \E j \in 1..Len(list) : list[j] = sub[i]

\* A level-0 diagram of one process 0.0 with a name, one entity and no edges.
IsContextSkeleton(d) ==
    /\ d.level = 0
    /\ d.edges = <<>>
    /\ Len(d.nodes) = 2
    /\ \E i, j \in 1..2 :
         /\ i # j
         /\ d.nodes[i].type = "process"
         /\ d.nodes[i].processNumber = Txt00
         /\ ~Blank(d.nodes[i].label)
         /\ d.nodes[j].type = "entity"

\* C1: on a level-0 diagram of one process "0.0" (named), one entity and no
\* edges, validateDiagram reports N-004 for both nodes and P-001, P-002 for
\* the process, and filterValidationForUI of that list is empty.
C1_SkeletonFindingsAreHidden ==
    IsContextSkeleton(diagram) =>
        /\ firstRun.ran =>
             /\ ~firstRun.threw
             /\ \A i \in 1..2 : HasFinding(firstRun.results, "N-004", diagram.nodes[i].id)
             /\ \A i \in 1..2 :
                  diagram.nodes[i].type = "process" =>
                      /\ HasFinding(firstRun.results, "P-001", diagram.nodes[i].id)
                      /\ HasFinding(firstRun.results, "P-002", diagram.nodes[i].id)
        /\ filtered.ran => filtered.results = <<>>

C1_Witness ==
    /\ IsContextSkeleton(diagram)
    /\ filtered.ran
    /\ Len(filterArg) = 4

\* C2 as stated: for an edge whose ends both resolve, two entities give
\* exactly one E-003 carrying the edge id, an entity and a data store give
\* exactly one E-005 carrying it, and no finding of any other rule code
\* carries that edge id.
C2_NoOtherCodeOnEdge ==
    (firstRun.ran /\ ~firstRun.threw) =>
        \A k \in 1..Len(diagram.edges) :
            LET e == diagram.edges[k]
                carried == Carrying(firstRun.results, e.id)
            IN  Resolves(diagram, e) =>
                  /\ EndTypes(diagram, e) = {"entity"} =>
                       /\ CountWhere(carried, LAMBDA r : r.ruleCode = "E-003") = 1
                       /\ \A i \in 1..Len(carried) : carried[i].ruleCode = "E-003"
                  /\ EndTypes(diagram, e) = {"entity", "datastore"} =>
                       /\ CountWhere(carried, LAMBDA r : r.ruleCode = "E-005") = 1
                       /\ \A i \in 1..Len(carried) : carried[i].ruleCode = "E-005"

\* What the iteration of one entity-entity or entity-store edge pushes: the
\* one finding of the given code, and E-001 before it when the label is blank.
OwnFindingsAre(own, e, code) ==
    /\ CountWhere(own, LAMBDA r : r.ruleCode = code) = 1
    /\ \A i \in 1..Len(own) : own[i].ruleCode \in {code, "E-001"} /\ own[i].edgeId = e.id
    /\ CountWhere(own, LAMBDA r : r.ruleCode = "E-001") = (IF Blank(e.label) THEN 1 ELSE 0)

\* C2 (amended): for an edge whose ends both resolve, two entities give
\* exactly one E-003 for the edge, an entity and a data store give exactly
\* one E-005, and the only other finding emitted for the edge is E-001, when
\* its label is blank.  The findings emitted for an edge are those its
\* iteration pushes; when no other edge shares its id they are the findings
\* of the result that carry its id.
C2_OnlyE001Besides ==
    firstRun.ran =>
        /\ ~firstRun.threw
        /\ \A k \in 1..Len(diagram.edges) :
            LET e == diagram.edges[k]
                own == edgeRules(e, diagram.nodes).out
                carried == StripIds(Carrying(firstRun.results, e.id))
                code == IF EndTypes(diagram, e) = {"entity"} THEN "E-003" ELSE "E-005"
            IN  (/\ Resolves(diagram, e)
                 /\ EndTypes(diagram, e) \in {{"entity"}, {"entity", "datastore"}}) =>
                    /\ OwnFindingsAre(own, e, code)
                    /\ AllIn(own, carried)
                    /\ UniqueEdgeId(diagram, e) => OwnFindingsAre(carried, e, code)

C2_Witness ==
    /\ firstRun.ran
    /\ \E k \in 1..Len(diagram.edges) :
         /\ Resolves(diagram, diagram.edges[k])
         /\ EndTypes(diagram, diagram.edges[k]) = {"entity", "datastore"}
         /\ Blank(diagram.edges[k].label)
         /\ Len(Carrying(firstRun.results, diagram.edges[k].id)) = 2

\* C3: on a level-0 diagram with exactly one process node, whatever its
\* number, the filtered findings contain no D-001.
C3_NoD001ForSingleProcess ==
    (diagram.level = 0 /\ ExactlyOneProcess(diagram) /\ filtered.ran) =>
        \A i \in 1..Len(filtered.results) : filtered.results[i].ruleCode # "D-001"

C3_Witness ==
    /\ diagram.level = 0
    /\ ExactlyOneProcess(diagram)
    /\ filtered.ran
    /\ \E i \in 1..Len(filtered.results) : filtered.results[i].ruleCode = "L0-001"

\* Whether a finding is one the filter is documented to keep.
PassesFilter(r, d) ==
    /\ ~(r.ruleCode = "D-001" /\ ExactlyOneProcess(d))
    /\ Len(d.edges) = 0 =>
         /\ r.severity = "error"
         /\ r.ruleCode \notin {"N-004", "P-001", "P-002", "L0-001"}

\* C4: filterValidationForUI returns, in their order and unchanged, exactly
\* the findings that are not a D-001 on a one-process diagram and, when the
\* diagram has no edges, are errors with a code other than N-004, P-001,
\* P-002, L0-001; with at least one edge every other finding passes.
C4_FilterKeepsExactlyThese ==
    filtered.ran =>
        filtered.results = SelectSeq(filterArg, LAMBDA r : PassesFilter(r, diagram))

C4_Witness ==
    /\ filtered.ran
    /\ diagram.edges = <<>>
    /\ ExactlyOneProcess(diagram)
    /\ filterArg = <<Finding("D-001", "error"), Finding("E-001", "error")>>
    /\ filtered.results = <<Finding("E-001", "error")>>

\* C5: for an edge one of whose ends matches no node, validateDiagram
\* returns without an exception, emits exactly one E-002 for the edge and no
\* E-003, E-004 or E-005 for it.
C5_DanglingEdgeGetsOnlyE002 ==
    firstRun.ran =>
        /\ ~firstRun.threw
        /\ \A k \in 1..Len(diagram.edges) :
            LET e == diagram.edges[k]
                own == edgeRules(e, diagram.nodes).out
                carried == StripIds(Carrying(firstRun.results, e.id))
                typeCodes == {"E-003", "E-004", "E-005"}
            IN  ~Resolves(diagram, e) =>
                    /\ CountWhere(own, LAMBDA r : r.ruleCode = "E-002" /\ r.edgeId = e.id) = 1
                    /\ CountWhere(own, LAMBDA r : r.ruleCode \in typeCodes) = 0
                    /\ AllIn(own, carried)
                    /\ UniqueEdgeId(diagram, e) =>
                         /\ CountWhere(carried, LAMBDA r : r.ruleCode = "E-002") = 1
                         /\ CountWhere(carried, LAMBDA r : r.ruleCode \in typeCodes) = 0

C5_Witness ==
    /\ firstRun.ran
    /\ \E k \in 1..Len(diagram.edges) :
         /\ ~Resolves(diagram, diagram.edges[k])
         /\ nodeMapHas(diagram.nodes, diagram.edges[k].sourceNodeId)
         /\ Len(Carrying(firstRun.results, diagram.edges[k].id)) = 1

DiagramRuleCodes == {"D-001", "L0-001", "D-002"}

\* The D-001, L0-001 and D-002 findings of a list, without generated ids.
DiagramRuleFindings(results) ==
    SelectSeq(StripIds(results), LAMBDA r : r.ruleCode \in DiagramRuleCodes)

\* The diagram without its nodes of level 1 and level 2.
Level0Part(d) == [d EXCEPT !.nodes = SelectSeq(@, LAMBDA n : n.level = 0)]

\* C10: for a diagram whose level is 0 the D-001, L0-001 and D-002 findings
\* of validateDiagram and of filterValidationForUI are those of the same
\* diagram without its level-1 and level-2 nodes.
C10_Level0RulesReadLevel0Nodes ==
    (diagram.level = 0 /\ firstRun.ran /\ ~firstRun.threw) =>
        LET own == Level0Part(diagram)
            ownResults == validateDiagram(own, "u").results
        IN  /\ DiagramRuleFindings(firstRun.results) = DiagramRuleFindings(ownResults)
            /\ filtered.ran =>
                 DiagramRuleFindings(filtered.results)
                   = DiagramRuleFindings(filterValidationForUI(ownResults, own))

----------------------------------------------------------------------------
(* Properties of the store.                                                *)

NoDangling(d) == \A k \in 1..Len(d.edges) : Resolves(d, d.edges[k])

Incident(e, id) == e.sourceNodeId = id \/ e.targetNodeId = id

\* The documented effect of removeNode(id): the diagram after it against
\* the diagram before it.
RemovedFrom(before, after, id) ==
    /\ \A i \in 1..Len(after.nodes) : after.nodes[i].id # id
    /\ \A k \in 1..Len(after.edges) : ~Incident(after.edges[k], id)
    /\ after.nodes = SelectSeq(before.nodes, LAMBDA n : n.id # id)
    /\ after.edges = SelectSeq(before.edges, LAMBDA e : ~Incident(e, id))
    /\ \A f \in DOMAIN before \ {"nodes", "edges"} : after[f] = before[f]
    /\ NoDangling(before) => NoDangling(after)

\* C7: after removeNode(id) the diagram has no node with that id and no edge
\* whose source or target is that id, every other node and edge is as it
\* was, and if no edge was dangling before the call none is dangling after.
C7_RemoveNodeCascades ==
    [][\A id \in StoreNodeIds :
          (lastRemoved'.id = id /\ RemoveNode(id)) => RemovedFrom(diagram, diagram', id)]_vars

C7_Witness ==
    /\ lastRemoved.id = "e-a"
    /\ lastRemoved.edges = 1
    /\ Len(diagram.nodes) = 1
    /\ diagram.edges = <<>>

\* C9: in every reachable state of the store, the initial state and the
\* state after resetDiagram included, validationResults is
\* filterValidationForUI(validateDiagram(diagram), diagram) up to the
\* generated ids of the findings.
C9_ResultsAreRefreshed ==
    \E seed \in Seeds :
        LET r == refresh(diagram, seed)
        IN  ~r.threw /\ StripIds(validationResults) = StripIds(r.results)

\* C8: in every diagram state reachable through the handlers of the Level 0,
\* Level 1 and Level 2 forms, no two nodes of the same level share an id.
C8_NodeIdsUniquePerLevel ==
    \A i, j \in 1..Len(diagram.nodes) :
        (i # j /\ diagram.nodes[i].level = diagram.nodes[j].level) =>
            diagram.nodes[i].id # diagram.nodes[j].id

\* C29: after any sequence of 'Add Process' and delete-process actions of
\* the Level 1 form, no two level-1 process nodes have the same
\* processNumber.
C29_ProcessNumbersUnique ==
    \A i, j \in 1..Len(diagram.nodes) :
        (/\ i # j
         /\ diagram.nodes[i].type = "process" /\ diagram.nodes[i].level = 1
         /\ diagram.nodes[j].type = "process" /\ diagram.nodes[j].level = 1)
            => diagram.nodes[i].processNumber # diagram.nodes[j].processNumber

\* The edges that carry a pair id.
CarryingPair(pairId) ==
    SelectSeq(diagram.edges, LAMBDA e : hasPairId(e) /\ e.pairId = pairId)

\* C25: after any sequence of Level 0 form actions (add entity, add flow
\* pair, delete a flow through its delete button, remove entity), every
\* pairId on a level-0 edge is carried by exactly two edges, one from the
\* entity to the main process and one from the main process to that entity.
C25_FlowPairsStayWhole ==
    \A k \in 1..Len(diagram.edges) :
        (diagram.edges[k].level = 0 /\ hasPairId(diagram.edges[k])) =>
            LET pair == CarryingPair(diagram.edges[k].pairId)
                mainId == diagram.nodes[findProcess00(diagram.nodes)].id
            IN  /\ Len(pair) = 2
                /\ findProcess00(diagram.nodes) # 0
                /\ \E a, b \in 1..2 :
                     /\ a # b
                     /\ pair[a].targetNodeId = mainId
                     /\ pair[b].sourceNodeId = mainId
                     /\ pair[a].sourceNodeId = pair[b].targetNodeId
                     /\ pair[a].sourceNodeId # mainId

\* An entity was removed with both flows of its pair while the pair of
\* another entity stays.
C25_Witness ==
    /\ lastRemoved.id # UndefinedId
    /\ lastRemoved.edges = 2
    /\ Len(diagram.edges) = 2
    /\ hasPairId(diagram.edges[1])

\* The nodes a coupled drag moves: those of the dragged node's type whose
\* level is `level`.
column(d, id, level) ==
    {i \in 1..Len(d.nodes) :
        /\ d.nodes[i].level = level
        /\ d.nodes[i].type = d.nodes[findNode(d, id)].type}

\* Everything of node i but its position is as it was.
SameButPosition(i) ==
    /\ DOMAIN diagram'.nodes[i] = DOMAIN diagram.nodes[i]
    /\ \A f \in DOMAIN diagram.nodes[i] \ {"position"} :
          diagram'.nodes[i][f] = diagram.nodes[i][f]

\* The step changes, of the store, at most the positions of nodes.
OnlyPositionsChange ==
    /\ validationResults' = validationResults
    /\ diagram' = [diagram EXCEPT !.nodes = diagram'.nodes]
    /\ Len(diagram'.nodes) = Len(diagram.nodes)
    /\ \A i \in 1..Len(diagram.nodes) : SameButPosition(i)

\* x is a whole number below 2^53.
IsWhole(x) == IsFinite(x) /\ x.e >= 0 /\ DLeq(DAbs(x), DInt(2^20))

\* C30 as stated: a drag, without level override, of a process or data-store
\* node whose level is 1 or 2 moves every node of that type and level by one
\* and the same amount in x, keeps the x differences among them, sets y on
\* the dragged node only, and leaves every other node, the edges and the
\* validation results as they were; a drag of an unknown id changes nothing.
DragAsStated(id, position) ==
    LET k == findNode(diagram, id)
        level == diagram.nodes[k].level
        moved == column(diagram, id, level)
    IN  /\ OnlyPositionsChange
        /\ k = 0 => diagram' = diagram
        /\ (k # 0 /\ diagram.nodes[k].type \in {"process", "datastore"} /\ level \in {1, 2}) =>
              /\ \A i \in moved :
                    /\ DSub(diagram'.nodes[i].position.x, diagram.nodes[i].position.x)
                         = DSub(position.x, diagram.nodes[k].position.x)
                    /\ diagram'.nodes[i].position.y
                         = IF i = k THEN position.y ELSE diagram.nodes[i].position.y
              /\ \A i, j \in moved :
                    DSub(diagram'.nodes[i].position.x, diagram'.nodes[j].position.x)
                      = DSub(diagram.nodes[i].position.x, diagram.nodes[j].position.x)
              /\ \A i \in (1..Len(diagram.nodes)) \ moved :
                    diagram'.nodes[i] = diagram.nodes[i]

DragEffect(id, position, levelOverride) ==
    LET k == findNode(diagram, id)
        level == levelInForce(diagram, levelOverride)
        moved == column(diagram, id, level)
        dx == DSub(position.x, diagram.nodes[k].position.x)
    IN  /\ OnlyPositionsChange
        /\ k = 0 => diagram' = diagram
        /\ (k # 0 /\ diagram.nodes[k].type \in {"process", "datastore"} /\ level \in {1, 2}) =>
              /\ \A i \in moved :
                    /\ diagram'.nodes[i].position.x = DAdd(diagram.nodes[i].position.x, dx)
                    /\ diagram'.nodes[i].position.y
                         = IF i = k THEN position.y ELSE diagram.nodes[i].position.y
              /\ \A i, j \in moved :
                    (/\ IsWhole(position.x)
                     /\ IsWhole(diagram.nodes[k].position.x)
                     /\ IsWhole(diagram.nodes[i].position.x)
                     /\ IsWhole(diagram.nodes[j].position.x)) =>
                        DSub(diagram'.nodes[i].position.x, diagram'.nodes[j].position.x)
                          = DSub(diagram.nodes[i].position.x, diagram.nodes[j].position.x)
              /\ \A i \in (1..Len(diagram.nodes)) \ moved :
                    diagram'.nodes[i] = diagram.nodes[i]

----------------------------------------------------------------------------
(* Properties of the entity handle codec.                                  *)

Tolerance == DDec(1, 9)

\* |x - y| <= 10^-9
Near(x, y) == DLeq(DAbs(DSub(x, y)), Tolerance)

\* C11: for every side and every offset strictly between 0 and 100, decoding
\* the encoded position gives the side back and the offset back within
\* floating tolerance.  (Violated: the last double below 100 on the right
\* side encodes to exactly 50, which decodes as the start of the bottom side.)
C11_RoundTripWithinTolerance ==
    codec.stage = "rendered" =>
        /\ codec.decoded.side = codec.side
        /\ Near(codec.decoded.offset, codec.offset)

----------------------------------------------------------------------------
(* Properties of CustomOrthogonalEdge.                                     *)

\* The edge the component is mounted for: the first edge of the diagram.
OwnEdge == diagram.edges[1]

\* Whether an edge is drawn with smart routing, by the documented rule.
SmartRouted(e) ==
    e.level = 2 /\ ("arrowDirection" \notin DOMAIN e \/ e.arrowDirection = "smart")

\* A path without its jumps: every arc and the line leading to it left out.
RECURSIVE StripJumps(_)
StripJumps(path) ==
    IF path = <<>> THEN <<>>
    ELSE IF Len(path) >= 2 /\ path[2].c = "A" THEN StripJumps(SubSeq(path, 3, Len(path)))
    ELSE <<Head(path)>> \o StripJumps(Tail(path))

PointsOf(path) == [i \in 1..Len(path) |-> Point(path[i].x, path[i].y)]

\* The documented effective direction of the manual L-shape.
EffectiveDirection ==
    IF "arrowDirection" \in DOMAIN OwnEdge
           /\ OwnEdge.arrowDirection \in {"horizontal-first", "vertical-first"}
    THEN OwnEdge.arrowDirection
    ELSE IF edgeProps.sourcePosition = "bottom" THEN "vertical-first"
    ELSE "horizontal-first"

SourcePoint == Point(edgeProps.sourceX, edgeProps.sourceY)

TargetPoint == Point(edgeProps.targetX, edgeProps.targetY)

CornerPoint ==
    IF EffectiveDirection = "horizontal-first"
    THEN Point(edgeProps.targetX, edgeProps.sourceY)
    ELSE Point(edgeProps.sourceX, edgeProps.targetY)

\* C12: in manual mode the drawn path, jump arcs left out, goes source ->
\* (target.x, source.y) -> target when the effective direction is
\* horizontal-first and source -> (source.x, target.y) -> target when it is
\* vertical-first; the effective direction is the stored one if that is
\* horizontal-first or vertical-first, else vertical-first exactly when the
\* source side is bottom.  From (0,0) to (100,50): (0,0),(100,0),(100,50) and
\* (0,0),(0,50),(100,50).
C12_ManualPathVisitsCorner ==
    (view.mounted /\ ~view.useSmartRouting) =>
        /\ view.currentDirection = EffectiveDirection
        /\ PointsOf(StripJumps(view.path)) = << SourcePoint, CornerPoint, TargetPoint >>
        /\ TargetPoint = Point(100, 50) =>
             PointsOf(StripJumps(view.path)) =
                 IF EffectiveDirection = "horizontal-first"
                 THEN << Point(0, 0), Point(100, 0), Point(100, 50) >>
                 ELSE << Point(0, 0), Point(0, 50), Point(100, 50) >>

\* A manual edge from (0,0) to (100,50) that goes down first because its
\* source side is bottom, drawn with a jump.
C12_Witness ==
    /\ view.mounted
    /\ ~view.useSmartRouting
    /\ "arrowDirection" \notin DOMAIN OwnEdge
    /\ edgeProps.sourcePosition = "bottom"
    /\ TargetPoint = Point(100, 50)
    /\ view.intersections # <<>>
    /\ Len(view.path) = 5

\* C13: smart routing is used exactly for an edge of level 2 whose
\* arrowDirection is unset or "smart"; a level-2 edge with an explicit
\* horizontal-first or vertical-first and every level-0 or level-1 edge is
\* drawn as a manual L-shape.
C13_SmartRoutingIffLevel2Unset ==
    view.mounted =>
        /\ view.useSmartRouting <=> SmartRouted(OwnEdge)
        /\ view.useSmartRouting => view.path = stepCommands(edgeProps.stepPath.points)
        /\ ~view.useSmartRouting =>
             /\ Len(view.segments) = 2
             /\ Len(StripJumps(view.path)) = 3

\* A level-2 edge with an explicit direction drawn as an L, and so are the
\* edges of the other levels.
C13_Witness ==
    /\ view.mounted
    /\ OwnEdge.level = 2
    /\ "arrowDirection" \in DOMAIN OwnEdge
    /\ OwnEdge.arrowDirection = "vertical-first"
    /\ ~view.useSmartRouting
    /\ TargetPoint = Point(100, 50)
    /\ PointsOf(view.path) = << Point(0, 0), Point(0, 50), Point(100, 50) >>

\* The direction after horizontal-first is vertical-first and the reverse.
OtherDirection(dir) ==
    IF dir = "horizontal-first" THEN "vertical-first" ELSE "horizontal-first"

\* The documented cycle of the stored direction of a level-2 edge.
NextInCycle(stored) ==
    CASE stored = UndefinedId \/ stored = "smart" -> "horizontal-first"
      [] stored = "horizontal-first" -> "vertical-first"
      [] stored = "vertical-first" -> "smart"

\* C14: repeated toggles on one edge follow a fixed cycle.  On a level-0 or
\* level-1 edge every toggle changes the effective direction from
\* horizontal-first to vertical-first or back, so two toggles return the
\* direction the edge started with; on a level-2 edge the stored direction
\* goes smart (or unset) -> horizontal-first -> vertical-first -> smart, so
\* three toggles return the edge to smart routing.
C14_TogglesFollowTheCycle ==
    \A i \in 1..(Len(toggles) - 1) :
        IF OwnEdge.level = 2
        THEN /\ toggles[i + 1].stored = NextInCycle(toggles[i].stored)
             /\ toggles[i + 1].smart <=> toggles[i + 1].stored = "smart"
             /\ (i + 3 <= Len(toggles) /\ toggles[i].smart) => toggles[i + 3].smart
        ELSE /\ toggles[i].effective \in {"horizontal-first", "vertical-first"}
             /\ toggles[i + 1].effective = OtherDirection(toggles[i].effective)
             /\ toggles[i + 1].stored = toggles[i + 1].effective
             /\ ~toggles[i + 1].smart
             /\ i + 2 <= Len(toggles) => toggles[i + 2].effective = toggles[i].effective

\* A level-2 edge without a stored direction toggled three times: it is
\* drawn horizontal-first, then vertical-first, then smart again.
C14_Witness ==
    /\ OwnEdge.level = 2
    /\ Len(toggles) >= 4
    /\ toggles[1].stored = UndefinedId
    /\ toggles[1].smart
    /\ toggles[2].stored = "horizontal-first"
    /\ toggles[3].stored = "vertical-first"
    /\ toggles[4].stored = "smart"
    /\ toggles[4].smart

\* The label offset the store holds for the edge, 0.5 when it holds none.
StoredLabelOffset ==
    IF "labelOffset" \in DOMAIN OwnEdge THEN OwnEdge.labelOffset ELSE DefaultLabelOffset

InLabelRange(x) == DLeq(MinLabelOffset, x) /\ DLeq(x, MaxLabelOffset)

\* C15: from any labelOffset in [0.1, 0.9] (0.5 when none is stored), after
\* any sequence of ArrowLeft / ArrowRight presses on a selected label the
\* stored labelOffset is within [0.1, 0.9]; a press moves it by 0.05 (to
\* within rounding) unless the clamp applies, and then it moves it by less,
\* onto the end of the range.
C15_LabelOffsetStaysInRange ==
    view.mounted =>
        /\ InLabelRange(StoredLabelOffset)
        /\ view.labelOffset = StoredLabelOffset
        /\ lastKey.key = "ArrowLeft" =>
             \/ Near(DSub(lastKey.before, StoredLabelOffset), LabelStep)
             \/ /\ StoredLabelOffset = MinLabelOffset
                /\ DLess(DSub(lastKey.before, StoredLabelOffset), LabelStep)
        /\ lastKey.key = "ArrowRight" =>
             \/ Near(DSub(StoredLabelOffset, lastKey.before), LabelStep)
             \/ /\ StoredLabelOffset = MaxLabelOffset
                /\ DLess(DSub(StoredLabelOffset, lastKey.before), LabelStep)

\* An ArrowRight press that the clamp cut short: the offset is 0.9 and the
\* press moved it by less than 0.05.
C15_Witness ==
    /\ view.mounted
    /\ isLabelSelected
    /\ lastKey.key = "ArrowRight"
    /\ StoredLabelOffset = MaxLabelOffset
    /\ lastKey.before # MaxLabelOffset
    /\ ~Near(DSub(StoredLabelOffset, lastKey.before), LabelStep)

\* |targetX - sourceX| and |targetY - sourceY|
HorizontalLength == Abs(edgeProps.targetX - edgeProps.sourceX)

VerticalLength == Abs(edgeProps.targetY - edgeProps.sourceY)

\* Whether the point (x, y) is on the leg from p1 to p2 of an L-shape.
OnLeg(x, y, p1, p2) ==
    /\ DLeq(DInt(Min(p1.x, p2.x)), x)
    /\ DLeq(x, DInt(Max(p1.x, p2.x)))
    /\ DLeq(DInt(Min(p1.y, p2.y)), y)
    /\ DLeq(y, DInt(Max(p1.y, p2.y)))

\* The length of the path from the source to a point (x, y) on the L.
ArcLengthTo(x, y) ==
    DAdd(DAbs(DSub(x, DInt(edgeProps.sourceX))), DAbs(DSub(y, DInt(edgeProps.sourceY))))

\* The label of a manual edge whose ends differ, with the offset that puts
\* it on the corner of the horizontal-first L.
AtCornerOffset ==
    /\ view.mounted
    /\ ~view.useSmartRouting
    /\ view.currentDirection = "horizontal-first"
    /\ HorizontalLength > 0
    /\ VerticalLength > 0
    /\ StoredLabelOffset = DDiv(DInt(HorizontalLength), DInt(HorizontalLength + VerticalLength))

C17_LabelAnchorIsFinite ==
    view.mounted => (IsFinite(view.labelX) /\ IsFinite(view.labelY))

\* The other edge of the diagram and the L it is taken to draw.
OtherEdge == diagram.edges[2]

OtherSegments == getEdgeSegments(OtherEdge, edgeProps.flow)

\* Whether the other edge is a manual one that stores no "smart".
OtherIsManual ==
    /\ ~SmartRouted(OtherEdge)
    /\ ("arrowDirection" \in DOMAIN OtherEdge => OtherEdge.arrowDirection # "smart")

IsVertical(seg) == seg.p1.x = seg.p2.x /\ seg.p1.y # seg.p2.y

IsHorizontal(seg) == seg.p1.y = seg.p2.y /\ seg.p1.x # seg.p2.x

\* Whether a vertical and a horizontal segment cross at a point more than
\* jumpRadius inside the extent of both.
StrictlyInside(v, h) ==
    /\ h.p1.y > Min(v.p1.y, v.p2.y) + jumpRadius
    /\ h.p1.y < Max(v.p1.y, v.p2.y) - jumpRadius
    /\ v.p1.x > Min(h.p1.x, h.p2.x) + jumpRadius
    /\ v.p1.x < Max(h.p1.x, h.p2.x) - jumpRadius

\* Whether two segments are perpendicular and cross strictly inside both.
Crosses(a, b) ==
    \/ IsVertical(a) /\ IsHorizontal(b) /\ StrictlyInside(a, b)
    \/ IsHorizontal(a) /\ IsVertical(b) /\ StrictlyInside(b, a)

CrossingPoint(a, b) ==
    IF IsVertical(a) THEN Point(a.p1.x, b.p1.y) ELSE Point(b.p1.x, a.p1.y)

\* The jumps of the edge as (segment, point) pairs.
RecordedJumps ==
    { <<view.intersections[k].segmentIndex + 1, view.intersections[k].pt>> :
        k \in 1..Len(view.intersections) }

\* C18: a pending debounced auto-resize is cancelled when a handle drag
\* starts.  While a handle is dragged no timer of the auto-resize effect is
\* pending, so none fires; and a timer that fired was set while no handle
\* was dragged and after the last drag started, so a timer set before a drag
\* fires only if the effect set it again after the drag.
C18_NoAutoResizeWhileDragging ==
    processNode.mounted =>
        /\ processNode.draggingHandleId # NoHandle => ~processNode.timer.pending
        /\ processNode.lastFired.fired =>
             /\ ~processNode.lastFired.dragging
             /\ ~processNode.lastFired.setDuringDrag
             /\ ~processNode.lastFired.stale

\* The render after a mouse-down on a handle, where the cleanup of the
\* effect cleared its pending timer and the effect, though the circle is
\* still too small, set none.
C18_Witness ==
    /\ processNode.mounted
    /\ processNode.draggingHandleId # NoHandle
    /\ processNode.cleared
    /\ processNode.rendered.resizeNeeded
    /\ DLess(processNode.rendered.diameter, processNode.rendered.requiredDiameter)
    /\ ~processNode.timer.pending

C20_SmartEdgesTakeNoPart ==
    view.mounted =>
        /\ view.useSmartRouting =>
             (view.intersections = <<>> /\ \A k \in 1..Len(view.path) : view.path[k].c # "A")
        /\ SmartRouted(OtherEdge) => view.intersections = <<>>

\* The commands i, i + 1, i + 2 of the path, when they lie on one vertical or
\* one horizontal line, do not turn back.
GoesOn(path, i) ==
    /\ (path[i].x = path[i + 1].x /\ path[i + 1].x = path[i + 2].x) =>
          (path[i + 1].y - path[i].y) * (path[i + 2].y - path[i + 1].y) >= 0
    /\ (path[i].y = path[i + 1].y /\ path[i + 1].y = path[i + 2].y) =>
          (path[i + 1].x - path[i].x) * (path[i + 2].x - path[i + 1].x) >= 0

\* The arc that ends command i of the path starts jumpRadius before a
\* recorded crossing and ends jumpRadius after it.
ArcSpansCrossing(path, i, intersections) ==
    /\ path[i - 1].c = "L"
    /\ \E k \in 1..Len(intersections) :
          /\ path[i - 1].x + path[i].x = 2 * intersections[k].pt.x
          /\ path[i - 1].y + path[i].y = 2 * intersections[k].pt.y
          /\ Abs(path[i].x - path[i - 1].x) + Abs(path[i].y - path[i - 1].y)
               = 2 * jumpRadius

\* C21: the path of a manual edge never reverses along a segment: the jumps
\* of a segment come in order of distance from its start, each arc starts
\* jumpRadius before and ends jumpRadius after its crossing, each arc starts
\* at or after the end of the arc before it, and the last arc ends before
\* the end of the segment.
C21_PathNeverReverses ==
    (view.mounted /\ ~view.useSmartRouting) =>
        /\ \A i \in 1..(Len(view.path) - 2) : GoesOn(view.path, i)
        /\ \A i \in 1..Len(view.path) :
              view.path[i].c = "A" => ArcSpansCrossing(view.path, i, view.intersections)
        /\ Cardinality({i \in 1..Len(view.path) : view.path[i].c = "A"})
             = Len(view.intersections)

\* The other edges of the mounted edge that are drawn as L-shapes and whose
\* nodes are rendered.
ManualSiblings ==
    {k \in 1..Len(diagram.edges) :
        /\ diagram.edges[k].id # edgeProps.id
        /\ edgeProps.flow[diagram.edges[k].id].found
        /\ ~useSmartRouting(diagram, diagram.edges[k].id)}

\* C27: the corner getEdgeSegments takes another edge to turn at is the
\* corner that edge is drawn with, also when the edge has no stored
\* arrowDirection and is drawn in the direction its source side gives.
C27_SiblingBendAsRendered ==
    view.mounted =>
        \A k \in ManualSiblings :
            getEdgeSegments(diagram.edges[k], edgeProps.flow)[1].p2
              = manualSegments(siblingProps(diagram.edges[k], edgeProps.flow),
                               currentDirection(diagram,
                                                siblingProps(diagram.edges[k],
                                                             edgeProps.flow)))[1].p2

----------------------------------------------------------------------------
(* Properties of getEntityLayoutInfo.                                      *)

\* The number of the indices below total that fall in the quadrant of index.
InQuadrant(index, total) == ((total - 1 - (index % 4)) \div 4) + 1

\* The range has the size given, to within 10^-9 degrees.
HasSize(range, size) == Near(DSub(range.end, range.start), size)

\* The two ranges are the lower and the upper half of the section.
HalvesOf(lower, upper, section, m) ==
    /\ lower.start = section.start
    /\ lower.end = upper.start
    /\ upper.end = section.end
    /\ DLess(lower.start, lower.end)
    /\ DLess(upper.start, upper.end)
    /\ HasSize(lower, DDiv(DInt(45), DInt(m)))
    /\ HasSize(upper, DDiv(DInt(45), DInt(m)))

\* The sections have no angle in common but an end.
Apart(a, b) == DLeq(a.end, b.start) \/ DLeq(b.end, a.start)

\* C22: getEntityLayoutInfo(i, n) with 0 <= i < n puts entity i in quadrant
\* (top, right, bottom, left)[i mod 4]; with m entities in that quadrant its
\* section has size 90/m, lies inside the 90 degrees of the quadrant, which
\* start at 270, 0, 90, 180, and overlaps the section of no other entity of
\* the quadrant; inFlowRange and outFlowRange are the two halves of it.
C22_SectionsPartitionQuadrant ==
    layoutCall.called =>
        LET i == layoutCall.entityIndex
            n == layoutCall.totalEntities
            r == layoutCall.result
            m == InQuadrant(i, n)
            S_q == <<270, 0, 90, 180>>[(i % 4) + 1]
        IN  /\ r.quadrant = <<"top", "right", "bottom", "left">>[(i % 4) + 1]
            /\ HasSize(r.processSection, DDiv(DInt(90), DInt(m)))
            /\ DLeq(DInt(S_q), r.processSection.start)
            /\ DLeq(r.processSection.end, DInt(S_q + 90))
            /\ \A j \in 0..(n - 1) :
                  (j # i /\ j % 4 = i % 4) =>
                      Apart(r.processSection, getEntityLayoutInfo(j, n).processSection)
            /\ \/ HalvesOf(r.inFlowRange, r.outFlowRange, r.processSection, m)
               \/ HalvesOf(r.outFlowRange, r.inFlowRange, r.processSection, m)

\* The last of 25 entities has been laid out: the seventh of the top quadrant.
C22_Witness ==
    /\ layoutCall.called
    /\ layoutCall.totalEntities = 25
    /\ layoutCall.entityIndex = 24
    /\ layoutCall.result.quadrant = "top"
    /\ layoutCall.result.processSection.start = DInt(270)

----------------------------------------------------------------------------
(* Properties of the auto-resize of ProcessNode.                           *)

\* The firing of the timer makes the circle larger, to the rounded diameter
\* the render asked for, and the render that follows asks for none.
FiringSettles ==
    /\ DLess(processNode.rendered.diameter, processNode'.rendered.diameter)
    /\ processNode'.rendered.diameter = MathRound(processNode.rendered.requiredDiameter)
    /\ ~processNode'.rendered.resizeNeeded
    /\ ~processNode'.timer.pending

\* C26: auto-resize terminates.  Every firing of the debounced timer makes
\* the diameter strictly larger, and once the rounded required diameter is
\* applied no resize is asked for and no timer is set; and a timer that is
\* pending does not stay pending for ever.
C26_AutoResizeTerminates ==
    /\ [][ResizeTimerFires => FiringSettles]_vars
    /\ (processNode.timer.pending ~> ~processNode.timer.pending)

\* The timer has fired for two handles in a range of 45 degrees, which ask
\* for a diameter of 2 * 30 * 8 / pi = 152.8, and the circle has settled at
\* 153.
C26_Witness ==
    /\ processNode.mounted
    /\ processNode.lastFired.fired
    /\ processNode.rendered.diameter = DInt(153)
    /\ ~processNode.rendered.resizeNeeded
    /\ ~processNode.timer.pending

----------------------------------------------------------------------------
(* Properties of the handles of EntityNode.                                *)

\* Where its style puts a handle along its side, in pixels from the start
\* of the side.
alongSide(node, handle) ==
    DMul(DDiv(handle.style.percent, DInt(100)),
         IF handle.style.side \in {"top", "bottom"} THEN node.width ELSE node.height)

\* What a spacing may fall short of the minimum by and still count as
\* reached by the relaxation: half a pixel.
SpacingTolerance == DDec(5, 1)

SpacedOut(node) ==
    \A i, j \in 1..Len(node.handles) :
        (i < j /\ node.handles[i].style.side = node.handles[j].style.side)
            => DLeq(DSub(minSpacingPx, SpacingTolerance),
                    DAbs(DSub(alongSide(node, node.handles[i]),
                              alongSide(node, node.handles[j]))))

\* C23: once an entity has rendered, any two of its handles on the same
\* side are drawn at least the minimum spacing of 25 px apart, to within
\* half a pixel, or the render has requested a resize of the node.
C23_HandlesKeepMinimumSpacing ==
    entityNode.mounted => (SpacedOut(entityNode) \/ entityNode.effect.updateNode)

----------------------------------------------------------------------------
(* Properties of the router's handle positions.                            *)

\* The node of getNodes() for a rendered entity: its stored position and
\* the width and height the component gave it.
reactFlowNode(d, rendered) ==
    [id |-> rendered.id, type |-> "entity",
     position |-> d.nodes[findNode(d, rendered.id)].position,
     width |-> rendered.width, height |-> rendered.height]

\* Where the style of a rendered handle puts it on the canvas.
renderedAt(node, handle) ==
    pointOfSide(handle.style.side, handle.style.percent,
                node.position.x, node.position.y, node.width, node.height)

SamePoint(p, q) == Near(p.x, q.x) /\ Near(p.y, q.y)

\* C28: for every handle an entity renders, the position that the router
\* recomputes for that end of the edge is the position where the entity
\* drew the handle, whether the edge has a stored offset or none or 0.
C28_RouterFindsRenderedHandle ==
    entityNode.mounted =>
        \A i \in 1..Len(entityNode.handles) :
            \A k \in 1..Len(diagram.edges) :
                diagram.edges[k].id = entityNode.handles[i].id =>
                    SamePoint(getNodeHandlePosition(reactFlowNode(diagram, entityNode),
                                                    diagram.edges[k],
                                                    entityNode.handles[i].type = "source"),
                              renderedAt(reactFlowNode(diagram, entityNode),
                                         entityNode.handles[i]))

----------------------------------------------------------------------------
(* Properties of the drag of a handle round the process circle.            *)

\* Whether two angles differ by a whole number of turns, up to two.
SameDirection(x, y) ==
    \E turns \in -2..2 :
        Near(DSub(x, y), IF turns < 0 THEN DNeg(DInt(360 * (-turns))) ELSE DInt(360 * turns))

\* C24: after every mouse move of a handle drag the stored offset of the
\* edge is the offset before the move plus delta, where delta is the mouse
\* angle minus the angle the handle was drawn at, brought into the range
\* above -180 degrees and up to 180 degrees.
C24_DragAddsNormalizedDelta ==
    (processNode.mounted /\ processNode.lastMove.made) =>
        /\ DEq(processNode.lastMove.newOffset,
               DAdd(processNode.lastMove.currentOffset, processNode.lastMove.delta))
        /\ SameDirection(processNode.lastMove.delta,
                         DSub(processNode.lastMove.mouseAngle, processNode.lastMove.angle))
        /\ DLess(DNeg(DInt(180)), processNode.lastMove.delta)
        /\ DLeq(processNode.lastMove.delta, DInt(180))

============================================================================
